---------------------------- MODULE Spec2Model ----------------------------
(***************************************************************************)
(* Two-pass assembler for a 24-bit machine (khaled-97/testing).            *)
(*                                                                         *)
(* The model follows one assembly job (process_file) from the moment the   *)
(* expanded source (.am) has been opened: the first pass over its lines,   *)
(* the rebase of the data symbols, the second pass, and the three writers. *)
(* Source lines are sequences of characters, scanned by the same index     *)
(* arithmetic as the C code (indices are 0-based, Ch(text, i) is text[i],  *)
(* and NUL, the string terminator, is read at and beyond the end).         *)
(*                                                                         *)
(* Specifications:                                                         *)
(*   Spec          one job on every short expanded source of the catalog   *)
(*   SpecOverflow  one job on sources that fill the images to their limit  *)
(*   SpecOperands  one job on instruction lines with every kind of operand *)
(*   SpecPre       preprocess_file alone on sources with macro lines       *)
(*   SpecRun       main with three basenames: preprocessing, both passes   *)
(*                 and the writers for each job in turn                    *)
(***************************************************************************)
EXTENDS Integers, Sequences, FiniteSets, TLC

(***************************************************************************)
(* Program constants.                                                      *)
(***************************************************************************)
MAX_CODE_SIZE == 1200
MAX_MACRO_NAME == 32
MAX_MACRO_LINES == 100
MAX_MACROS == 50
MAX_SOURCE_LINE == 81
START_IC == 100
MAX_OP_LEN == 4
ARE_ABSOLUTE == 4
ARE_RELOCATABLE == 2
ARE_EXTERNAL == 1

\* AddressMode
IMMEDIATE == 0
DIRECT == 1
RELATIVE == 2
REGISTER_MODE == 3
NO_ADDRESSING == -1
INVALID_ADDR == -2

\* OpCode
OP_MOV == 0
OP_CMP == 1
OP_MATH == 2
OP_LEA == 4
OP_SINGLE == 5
OP_JUMPS == 9
OP_RED == 12
OP_PRN == 13
OP_RTS == 14
OP_HALT == 15
OP_INVALID == -1

\* SymbolType
SYMBOL_CODE == "SYMBOL_CODE"
SYMBOL_DATA == "SYMBOL_DATA"
SYMBOL_ENTRY == "SYMBOL_ENTRY"
SYMBOL_EXTERN == "SYMBOL_EXTERN"

\* Directive
DIR_DATA == "DIR_DATA"
DIR_EXTERN == "DIR_EXTERN"
DIR_ENTRY == "DIR_ENTRY"
DIR_STRING == "DIR_STRING"
DIR_NONE == "DIR_NONE"
DIR_ERROR == "DIR_ERROR"

(***************************************************************************)
(* Characters.  NUL is the terminator '\0'; a NULL pointer in the code     *)
(* image is a missing index of the function code.                           *)
(***************************************************************************)
NUL == ""
Lower == {"a", "b", "c", "d", "e", "f", "g", "h", "i", "j", "k", "l", "m", "n", "o", "p", "q", "r", "s", "t", "u", "v", "w", "x", "y", "z"}
Upper == {"A", "B", "C", "D", "E", "F", "G", "H", "I", "J", "K", "L", "M", "N", "O", "P", "Q", "R", "S", "T", "U", "V", "W", "X", "Y", "Z"}
Digit == {"0", "1", "2", "3", "4", "5", "6", "7", "8", "9"}

\* The ASCII characters with codes 32..95 in code order, and the lower-case
\* letters (codes 97..122).
AsciiTable ==
    <<
       " ", "!", "\"", "#", "$", "%", "&", "'", "(", ")", "*", "+", ",", "-", ".", "/",
       "0", "1", "2", "3", "4", "5", "6", "7", "8", "9", ":", ";", "<", "=", ">", "?",
       "@", "A", "B", "C", "D", "E", "F", "G", "H", "I", "J", "K", "L", "M", "N", "O",
       "P", "Q", "R", "S", "T", "U", "V", "W", "X", "Y", "Z", "[", "\\", "]", "^", "_" >>

LowerTable ==
    << "a", "b", "c", "d", "e", "f", "g", "h", "i", "j", "k", "l", "m", "n", "o", "p", "q", "r", "s", "t", "u", "v", "w", "x", "y", "z" >>

CharCode(c) ==
    IF c \in Lower
    THEN 96 + (CHOOSE k \in 1..Len(LowerTable) : LowerTable[k] = c)
    ELSE 31 + (CHOOSE k \in 1..Len(AsciiTable) : AsciiTable[k] = c)

DigitVal(c) == CharCode(c) - 48

isalpha(c) == c \in Lower \cup Upper
isdigit(c) == c \in Digit
isalnum(c) == isalpha(c) \/ isdigit(c)
isspace(c) == c \in {" ", "\t", "\n", "\f", "\r"}

Ch(text, i) == IF i >= 0 /\ i < Len(text) THEN text[i + 1] ELSE NUL

\* text[from .. to-1] as a string of its own
Sub(text, from, to) == SubSeq(text, from + 1, to)

Min(S) == CHOOSE x \in S : \A y \in S : x <= y

\* a[k] = v on an array whose unset cells are missing indices
Store(a, k, v) == [x \in (DOMAIN a) \cup {k} |-> IF x = k THEN v ELSE a[x]]

(***************************************************************************)
(* utils.c                                                                 *)
(***************************************************************************)
RECURSIVE skip_whitespace(_, _)
skip_whitespace(str, index) ==
    IF Ch(str, index) \in {" ", "\t"}
    THEN skip_whitespace(str, index + 1)
    ELSE index

\* the index reached by: while (text[i] && text[i] not in stop && n < room) i++, n++
RECURSIVE span(_, _, _, _)
span(text, i, stop, room) ==
    IF Ch(text, i) # NUL /\ Ch(text, i) \notin stop /\ room > 0
    THEN span(text, i + 1, stop, room - 1)
    ELSE i

is_valid_label(name) ==
    /\ Len(name) >= 1
    /\ isalpha(name[1])
    /\ \A i \in 2..Len(name) : isalnum(name[i]) /\ i - 1 < MAX_SOURCE_LINE - 1
    /\ Len(name) <= 31

get_label(text) ==
    LET s == skip_whitespace(text, 0)
        e == span(text, s, {":", " ", "\t", "\n"}, MAX_SOURCE_LINE - 1)
    IN  IF Ch(text, e) # ":"
        THEN [found |-> FALSE, label |-> <<>>]
        ELSE [found |-> TRUE, label |-> Sub(text, s, e)]

str_chr(str, c) == \E i \in 1..Len(str) : str[i] = c

\* strtol(str, &end, 10): optional white space, optional sign, digits
RECURSIVE digits_value(_, _, _)
digits_value(str, i, acc) ==
    IF isdigit(Ch(str, i))
    THEN digits_value(str, i + 1, 10 * acc + DigitVal(Ch(str, i)))
    ELSE [value |-> acc, end |-> i]

RECURSIVE skip_space(_, _)
skip_space(str, i) == IF isspace(Ch(str, i)) THEN skip_space(str, i + 1) ELSE i

strtol(str) ==
    LET s == skip_space(str, 0)
        neg == Ch(str, s) = "-"
        d == IF Ch(str, s) \in {"+", "-"} THEN s + 1 ELSE s
        r == digits_value(str, d, 0)
    IN  IF r.end = d
        THEN [value |-> 0, end |-> 0]
        ELSE [value |-> IF neg THEN 0 - r.value ELSE r.value, end |-> r.end]

(***************************************************************************)
(* symbol_table.c: the table is the list of its entries in insertion order *)
(***************************************************************************)
find_symbol(table, name) ==
    LET S == {i \in 1..Len(table) : table[i].name = name}
    IN  IF S = {} THEN 0 ELSE Min(S)

\* find_symbol_by_type without the comparison of the type (C9 fails of it)
find_symbol_any_type(table, name, type) ==
    LET S == {i \in 1..Len(table) : table[i].name = name}
    IN  IF S = {} THEN 0 ELSE Min(S)

find_symbol_by_type(table, name, type) ==
    LET S == {i \in 1..Len(table) : table[i].name = name /\ table[i].type = type}
    IN  IF S = {} THEN 0 ELSE Min(S)

\* add_symbol without the search for the name (C7 fails of it)
add_symbol_unchecked(table, name, addr, type) ==
    Append(table, [name |-> name, address |-> addr, type |-> type])

add_symbol(table, name, addr, type) ==
    IF find_symbol(table, name) # 0
    THEN table
    ELSE Append(table, [name |-> name, address |-> addr, type |-> type])

(***************************************************************************)
(* instructions.c: the directives of the first pass                        *)
(***************************************************************************)
\* strncmp(text + index, pre, strlen(pre)) == 0
HasPrefix(text, index, pre) == \A k \in 1..Len(pre) : Ch(text, index + k - 1) = pre[k]

get_instruction_type(text, index) ==
    IF Ch(text, index) # "."
    THEN [dir |-> DIR_NONE, index |-> index]
    ELSE IF HasPrefix(text, index, <<".", "d", "a", "t", "a">>)
    THEN [dir |-> DIR_DATA, index |-> index + 5]
    ELSE IF HasPrefix(text, index, <<".", "s", "t", "r", "i", "n", "g">>)
    THEN [dir |-> DIR_STRING, index |-> index + 7]
    ELSE IF HasPrefix(text, index, <<".", "e", "n", "t", "r", "y">>)
    THEN [dir |-> DIR_ENTRY, index |-> index + 6]
    ELSE IF HasPrefix(text, index, <<".", "e", "x", "t", "e", "r", "n">>)
    THEN [dir |-> DIR_EXTERN, index |-> index + 7]
    ELSE [dir |-> DIR_ERROR, index |-> index]

is_valid_number(str) ==
    LET i == IF Ch(str, 0) \in {"+", "-"} THEN 1 ELSE 0
    IN  /\ Len(str) > 0
        /\ Ch(str, i) # NUL
        /\ \A k \in (i + 1)..Len(str) : isdigit(str[k])

get_number(str) ==
    IF ~is_valid_number(str) THEN [success |-> FALSE, value |-> 0]
    ELSE LET r == strtol(str)
         IN  IF Ch(str, r.end) # NUL THEN [success |-> FALSE, value |-> 0]
             ELSE [success |-> TRUE, value |-> r.value]

\* the while loop of process_data_inst, from position i
RECURSIVE data_loop(_, _, _, _)
data_loop(text, i, data_img, dc) ==
    IF Ch(text, i) = NUL \/ Ch(text, i) = "\n"
    THEN [ok |-> TRUE, data |-> data_img, dc |-> dc]
    ELSE
    LET signed == Ch(text, i) \in {"+", "-"}
        i1 == IF signed THEN i + 1 ELSE i
        i2 == span(text, i1, {",", " ", "\t", "\n", "\f", "\r"},
                   MAX_SOURCE_LINE - 1 - (i1 - i))
        num_str == Sub(text, i, i2)
        idx == IF Ch(num_str, 0) \in {"+", "-"} THEN 1 ELSE 0
        fail == [ok |-> FALSE, data |-> data_img, dc |-> dc]
        n == get_number(num_str)
        stored == Store(data_img, dc, n.value)
        j == skip_whitespace(text, i2)
        k == skip_whitespace(text, j + 1)
    IN  IF \E p \in (idx + 1)..Len(num_str) : ~isdigit(num_str[p]) THEN fail
        ELSE IF Len(num_str) = 0 THEN fail
        ELSE IF Ch(num_str, 0) \in {"+", "-"} /\ Ch(num_str, 1) = NUL THEN fail
        ELSE IF ~n.success THEN fail
        ELSE IF Ch(text, j) = ","
        THEN IF Ch(text, k) = ","
             THEN [ok |-> FALSE, data |-> stored, dc |-> dc + 1]
             ELSE IF Ch(text, k) = NUL \/ Ch(text, k) = "\n"
             THEN [ok |-> FALSE, data |-> stored, dc |-> dc + 1]
             ELSE data_loop(text, k, stored, dc + 1)
        ELSE IF Ch(text, j) # NUL /\ Ch(text, j) # "\n"
        THEN [ok |-> FALSE, data |-> stored, dc |-> dc + 1]
        ELSE data_loop(text, j, stored, dc + 1)

process_data_inst(text, start_idx, data_img, dc) ==
    LET i == skip_whitespace(text, start_idx)
    IN  IF Ch(text, i) = NUL \/ Ch(text, i) = "\n"
        THEN [ok |-> FALSE, data |-> data_img, dc |-> dc]
        ELSE data_loop(text, i, data_img, dc)

\* the character loop of process_string_inst, from position i
RECURSIVE string_loop(_, _, _, _)
string_loop(text, i, data_img, dc) ==
    IF Ch(text, i) # NUL /\ Ch(text, i) # "\""
    THEN IF Ch(text, i) = "\n"
         THEN [ok |-> FALSE, i |-> i, data |-> data_img, dc |-> dc]
         ELSE string_loop(text, i + 1, Store(data_img, dc, CharCode(Ch(text, i))), dc + 1)
    ELSE [ok |-> TRUE, i |-> i, data |-> data_img, dc |-> dc]

process_string_inst(text, start_idx, data_img, dc) ==
    LET i == skip_whitespace(text, start_idx)
        r == string_loop(text, i + 1, data_img, dc)
        j == skip_whitespace(text, r.i + 1)
    IN  IF Ch(text, i) # "\"" THEN [ok |-> FALSE, data |-> data_img, dc |-> dc]
        ELSE IF ~r.ok THEN [ok |-> FALSE, data |-> r.data, dc |-> r.dc]
        ELSE IF Ch(text, r.i) # "\"" THEN [ok |-> FALSE, data |-> r.data, dc |-> r.dc]
        ELSE [ok |-> Ch(text, j) = NUL \/ Ch(text, j) = "\n",
              data |-> Store(r.data, r.dc, 0), dc |-> r.dc + 1]

process_extern_inst(text, start_idx, symbols) ==
    LET i == skip_whitespace(text, start_idx)
        e == span(text, i, {" ", "\t", "\n", "\f", "\r"}, MAX_SOURCE_LINE - 1)
        label == Sub(text, i, e)
        j == skip_whitespace(text, e)
    IN  IF ~is_valid_label(label)
        THEN [ok |-> FALSE, symbols |-> symbols]
        ELSE [ok |-> Ch(text, j) = NUL \/ Ch(text, j) = "\n",
              symbols |-> add_symbol(symbols, label, 0, SYMBOL_EXTERN)]

(***************************************************************************)
(* binary_machine_code.c                                                   *)
(***************************************************************************)
\* The bit-fields of InstructionWord keep the low bits of what is assigned.
\* A DataWord keeps its value as an unsigned long; the model keeps the
\* integer itself, of which the program only ever uses the residue (the
\* writer keeps bits 0..20 of it).
create_instruction_word(op, func, src, dest, src_reg, dest_reg) ==
    [are |-> ARE_ABSOLUTE, op |-> op % 64, func |-> func % 32,
     src_mode |-> src % 4, dest_mode |-> dest % 4,
     src_reg |-> src_reg % 8, dest_reg |-> dest_reg % 8]

create_data_word(are, value) == [are |-> are % 8, value |-> value]

\* a variant of get_addressing_mode that tries the label rule before it rejects
\* a register name that is too long (C26 fails of it)
get_addressing_mode_label_first(operand) ==
    IF Ch(operand, 0) = "#"
    THEN LET numstr == Sub(operand, 1, Len(operand))
         IN  IF Len(numstr) = 0 THEN NO_ADDRESSING
             ELSE IF Ch(numstr, strtol(numstr).end) # NUL THEN NO_ADDRESSING
             ELSE IMMEDIATE
    ELSE IF Ch(operand, 0) = "&"
    THEN IF ~is_valid_label(Sub(operand, 1, Len(operand)))
         THEN NO_ADDRESSING
         ELSE RELATIVE
    ELSE IF Ch(operand, 0) = "r"
    THEN IF is_valid_label(operand) /\ Len(operand) # 2 THEN DIRECT
         ELSE IF Len(operand) # 2 THEN INVALID_ADDR
         ELSE IF Ch(operand, 1) \in {"0", "1", "2", "3", "4", "5", "6", "7"}
         THEN REGISTER_MODE
         ELSE INVALID_ADDR
    ELSE IF is_valid_label(operand) THEN DIRECT
    ELSE NO_ADDRESSING

get_addressing_mode(operand) ==
    IF Ch(operand, 0) = "#"
    THEN LET numstr == Sub(operand, 1, Len(operand))
         IN  IF Len(numstr) = 0 THEN NO_ADDRESSING
             ELSE IF Ch(numstr, strtol(numstr).end) # NUL THEN NO_ADDRESSING
             ELSE IMMEDIATE
    ELSE IF Ch(operand, 0) = "&"
    THEN IF ~is_valid_label(Sub(operand, 1, Len(operand)))
         THEN NO_ADDRESSING
         ELSE RELATIVE
    ELSE IF Ch(operand, 0) = "r"
    THEN IF Len(operand) # 2 THEN INVALID_ADDR
         ELSE IF Ch(operand, 1) \in {"0", "1", "2", "3", "4", "5", "6", "7"}
         THEN REGISTER_MODE
         ELSE INVALID_ADDR
    ELSE IF is_valid_label(operand) THEN DIRECT
    ELSE NO_ADDRESSING

OpTable ==
    <<
       [name |-> <<"m", "o", "v">>, op |-> OP_MOV, func |-> 0],
       [name |-> <<"c", "m", "p">>, op |-> OP_CMP, func |-> 0],
       [name |-> <<"a", "d", "d">>, op |-> OP_MATH, func |-> 1],
       [name |-> <<"s", "u", "b">>, op |-> OP_MATH, func |-> 2],
       [name |-> <<"l", "e", "a">>, op |-> OP_LEA, func |-> 0],
       [name |-> <<"c", "l", "r">>, op |-> OP_SINGLE, func |-> 1],
       [name |-> <<"n", "o", "t">>, op |-> OP_SINGLE, func |-> 2],
       [name |-> <<"i", "n", "c">>, op |-> OP_SINGLE, func |-> 3],
       [name |-> <<"d", "e", "c">>, op |-> OP_SINGLE, func |-> 4],
       [name |-> <<"j", "m", "p">>, op |-> OP_JUMPS, func |-> 1],
       [name |-> <<"b", "n", "e">>, op |-> OP_JUMPS, func |-> 2],
       [name |-> <<"j", "s", "r">>, op |-> OP_JUMPS, func |-> 3],
       [name |-> <<"r", "e", "d">>, op |-> OP_RED, func |-> 0],
       [name |-> <<"p", "r", "n">>, op |-> OP_PRN, func |-> 0],
       [name |-> <<"r", "t", "s">>, op |-> OP_RTS, func |-> 0],
       [name |-> <<"s", "t", "o", "p">>, op |-> OP_HALT, func |-> 0] >>

get_operation_details(op_name) ==
    LET S == {k \in 1..Len(OpTable) : OpTable[k].name = op_name}
    IN  IF S = {} THEN [op |-> OP_INVALID, func |-> 0]
        ELSE [op |-> OpTable[Min(S)].op, func |-> OpTable[Min(S)].func]

\* the while loop of parse_operands, from position i with the operands found so far
RECURSIVE operands_loop(_, _, _)
operands_loop(text, i, operands) ==
    IF Ch(text, i) # NUL /\ Ch(text, i) # "\n" /\ Len(operands) < 2
    THEN LET e == span(text, i, {" ", ",", "\t", "\n"}, MAX_SOURCE_LINE - 1)
             j == skip_whitespace(text, e)
             k == IF Ch(text, j) = "," THEN skip_whitespace(text, j + 1) ELSE j
         IN  IF e = i
             THEN [i |-> i, operands |-> operands]
             ELSE operands_loop(text, k, Append(operands, Sub(text, i, e)))
    ELSE [i |-> i, operands |-> operands]

\* a variant of parse_operands without its checks of the operand count
\* (C21 fails of it)
parse_operands_any_count(text, start_idx, op_name) ==
    LET r == operands_loop(text, skip_whitespace(text, start_idx), <<>>)
    IN  [ok |-> Ch(text, r.i) \in {NUL, "\n"}, count |-> Len(r.operands),
         operands |-> r.operands]

parse_operands(text, start_idx, op_name) ==
    LET r == operands_loop(text, skip_whitespace(text, start_idx), <<>>)
        count == Len(r.operands)
        op == get_operation_details(op_name).op
    IN  IF Ch(text, r.i) # NUL /\ Ch(text, r.i) # "\n"
        THEN [ok |-> FALSE, count |-> count, operands |-> r.operands]
        ELSE IF op \in {OP_RTS, OP_HALT} /\ count # 0
        THEN [ok |-> FALSE, count |-> count, operands |-> r.operands]
        ELSE IF op \in {OP_MOV, OP_CMP, OP_MATH, OP_LEA} /\ count # 2
        THEN [ok |-> FALSE, count |-> count, operands |-> r.operands]
        ELSE [ok |-> TRUE, count |-> count, operands |-> r.operands]

(***************************************************************************)
(* first_pass.c                                                            *)
(***************************************************************************)
\* A cell of the code image: is_instruction is 0 on a data word and, on an
\* instruction word, the number of cells of the instruction.
InstCell(len, inst) == [is_instruction |-> len, code |-> inst]
DataCell(word) == [is_instruction |-> 0, data |-> word]

handle_extra_words(code, ic, operand, opcode) ==
    LET mode == get_addressing_mode(operand)
    IN  IF mode = INVALID_ADDR THEN [ic |-> ic, code |-> code]
        ELSE IF mode # NO_ADDRESSING /\ mode # REGISTER_MODE
        THEN IF mode = IMMEDIATE
             THEN LET value == strtol(Sub(operand, 1, Len(operand))).value
                  IN  [ic |-> ic + 1,
                       code |-> Store(code, ic - START_IC,
                                      DataCell(create_data_word(ARE_ABSOLUTE, value)))]
             ELSE IF mode = DIRECT
             THEN [ic |-> ic + 1, code |-> code]
             ELSE IF opcode # OP_JUMPS
             THEN [ic |-> ic, code |-> code]
             ELSE [ic |-> ic + 1, code |-> code]
        ELSE [ic |-> ic, code |-> code]

\* operands[k][1] - '0' when the operand is a register, else 0
RegOf(mode, operand) == IF mode = REGISTER_MODE THEN DigitVal(Ch(operand, 1)) ELSE 0

\* the addressing modes the instruction word is given (op_count 0, 1, 2)
src_mode_of(opcode, op_count, m1) ==
    IF op_count = 0 THEN 0
    ELSE IF op_count = 1
    THEN IF opcode \in {OP_SINGLE, OP_JUMPS, OP_RED} THEN 0
         ELSE IF opcode = OP_PRN THEN m1
         ELSE NO_ADDRESSING
    ELSE m1

\* a variant of dest_mode_of that gives the destination the mode of every
\* single operand (C20 fails of it)
dest_mode_of_single(opcode, op_count, m1, m2) ==
    IF op_count = 0 THEN 0
    ELSE IF op_count = 1 THEN m1
    ELSE m2

dest_mode_of(opcode, op_count, m1, m2) ==
    IF op_count = 0 THEN 0
    ELSE IF op_count = 1
    THEN IF opcode \in {OP_SINGLE, OP_JUMPS, OP_RED} THEN m1
         ELSE IF opcode = OP_PRN THEN 0
         ELSE NO_ADDRESSING
    ELSE m2

\* the register numbers the instruction word is given
src_reg_of(opcode, op_count, src_mode, operands) ==
    IF op_count = 0 THEN 0
    ELSE IF op_count = 1
    THEN IF opcode = OP_PRN THEN RegOf(src_mode, operands[1]) ELSE 0
    ELSE RegOf(src_mode, operands[1])

dest_reg_of(opcode, op_count, dest_mode, operands) ==
    IF op_count = 0 THEN 0
    ELSE IF op_count = 1
    THEN IF opcode \in {OP_SINGLE, OP_JUMPS, OP_RED}
         THEN RegOf(dest_mode, operands[1])
         ELSE 0
    ELSE RegOf(dest_mode, operands[2])

\* "Handle additional words for operands"
first_extra_word(c0, ic, op_count, operands, opcode) ==
    IF op_count > 0
    THEN handle_extra_words(c0, ic + 1, operands[1], opcode)
    ELSE [ic |-> ic + 1, code |-> c0]

second_extra_word(w1, op_count, operands, opcode) ==
    IF op_count > 1
    THEN handle_extra_words(w1.code, w1.ic, operands[2], opcode)
    ELSE w1

\* a variant of set_instruction_length that leaves the length as it was stored
\* with the instruction word (C25 fails of it)
set_instruction_length_unset(w2, ic_start) ==
    [ok |-> TRUE, ic |-> w2.ic, code |-> w2.code]

\* "Set instruction length"
set_instruction_length(w2, ic_start) ==
    [ok |-> TRUE, ic |-> w2.ic,
     code |-> [w2.code EXCEPT ![ic_start - START_IC].is_instruction = w2.ic - ic_start]]

\* "Store instruction" and what follows it
store_instruction(ic, code, opcode, op_count, operands, inst) ==
    set_instruction_length(
        second_extra_word(
            first_extra_word(Store(code, ic - START_IC, InstCell(1, inst)),
                             ic, op_count, operands, opcode),
            op_count, operands, opcode),
        ic)

\* the checks of the operand count and of the modes, then the instruction word
encode_instruction(ic, code, d, op_count, operands, src_mode, dest_mode) ==
    IF d.op \in {OP_SINGLE, OP_JUMPS, OP_RED, OP_PRN} /\ op_count # 1
    THEN [ok |-> FALSE, ic |-> ic, code |-> code]
    ELSE IF src_mode = INVALID_ADDR \/ dest_mode = INVALID_ADDR
    THEN [ok |-> FALSE, ic |-> ic, code |-> code]
    ELSE store_instruction(ic, code, d.op, op_count, operands,
             create_instruction_word(d.op, d.func, src_mode, dest_mode,
                 src_reg_of(d.op, op_count, src_mode, operands),
                 dest_reg_of(d.op, op_count, dest_mode, operands)))

\* the line after get_operation_details (d) and parse_operands (p)
process_operation(ic, code, d, p) ==
    IF d.op = OP_INVALID THEN [ok |-> FALSE, ic |-> ic, code |-> code]
    ELSE IF ~p.ok THEN [ok |-> FALSE, ic |-> ic, code |-> code]
    ELSE encode_instruction(ic, code, d, p.count, p.operands,
             src_mode_of(d.op, p.count, get_addressing_mode(p.operands[1])),
             dest_mode_of(d.op, p.count, get_addressing_mode(p.operands[1]),
                          get_addressing_mode(p.operands[2])))

\* the operation name is text[index .. e-1]
process_named_operation(text, index, e, ic, code) ==
    process_operation(ic, code, get_operation_details(Sub(text, index, e)),
                      parse_operands(text, e, Sub(text, index, e)))

process_code_line(text, index, ic, code) ==
    process_named_operation(text, index, span(text, index, {" ", "\t", "\n"}, MAX_OP_LEN),
                            ic, code)

process_line_first_pass(text, ic, dc, code, data, symbols) ==
    LET st(ok, i, d, c, dt, sy) ==
            [ok |-> ok, ic |-> i, dc |-> d, code |-> c, data |-> dt, symbols |-> sy]
        same(ok) == st(ok, ic, dc, code, data, symbols)
        index0 == skip_whitespace(text, 0)
        lab == get_label(text)
        symbol == lab.label
        index1 == IF lab.found
                  THEN skip_whitespace(text, span(text, index0, {":"}, Len(text)) + 1)
                  ELSE index0
        t == get_instruction_type(text, index1)
        dir == t.dir
        index2 == skip_whitespace(text, t.index)
        sy_data == IF dir \in {DIR_DATA, DIR_STRING} /\ Len(symbol) > 0
                   THEN add_symbol(symbols, symbol, dc, SYMBOL_DATA)
                   ELSE symbols
        sy_code == IF Len(symbol) > 0
                   THEN add_symbol(symbols, symbol, ic, SYMBOL_CODE)
                   ELSE symbols
    IN  IF Ch(text, index0) \in {NUL, "\n", ";"} THEN same(TRUE)
        ELSE IF lab.found /\ ~is_valid_label(symbol) THEN same(FALSE)
        ELSE IF lab.found /\ find_symbol(symbols, symbol) # 0 THEN same(FALSE)
        ELSE IF Ch(text, index1) = NUL THEN same(TRUE)
        ELSE IF dir = DIR_ERROR THEN same(FALSE)
        ELSE IF dir = DIR_STRING
        THEN LET r == process_string_inst(text, index2, data, dc)
             IN  st(r.ok, ic, r.dc, code, r.data, sy_data)
        ELSE IF dir = DIR_DATA
        THEN LET r == process_data_inst(text, index2, data, dc)
             IN  st(r.ok, ic, r.dc, code, r.data, sy_data)
        ELSE IF dir = DIR_EXTERN
        THEN LET r == process_extern_inst(text, index2, symbols)
             IN  st(r.ok, ic, dc, code, data, r.symbols)
        ELSE IF dir = DIR_ENTRY
        THEN same(Len(symbol) = 0)
        ELSE LET r == process_code_line(text, index2, ic, code)
             IN  st(r.ok, r.ic, dc, r.code, data, sy_code)

(***************************************************************************)
(* second_pass.c                                                           *)
(***************************************************************************)
get_opcode_from_line(text) ==
    LET i0 == IF str_chr(text, ":") THEN span(text, 0, {":"}, Len(text)) + 1 ELSE 0
        i1 == skip_whitespace(text, i0)
        e == span(text, i1, {" ", "\t", "\n"}, MAX_OP_LEN)
    IN  get_operation_details(Sub(text, i1, e)).op

\* The diagnostics print_error writes in the second pass ("" when none).
NoError == ""
ErrUndefinedSymbol == "Undefined symbol"
ErrRelativeNotJump == "Relative addressing mode (&) can only be used with jump instructions"
ErrNotCodeLabel == "Symbol must be a code label for relative addressing"
ErrTooManyOperands == "Too many operands"
ErrMissingEntryLabel == "Missing label name for .entry directive"
ErrLabelTooLong == "Label name too long"
ErrExternAndEntry == "Symbol cannot be both external and entry"
ErrUndefinedEntry == "Undefined symbol for .entry"

\* a variant of process_operand_second_pass that resolves a relative operand
\* for every opcode (C18 fails of it)
process_operand_any_opcode(curr_ic, start_ic, operand, code, symbols, opcode) ==
    LET mode == get_addressing_mode(operand)
        st(ok, err, ci, c, sy) ==
            [ok |-> ok, err |-> err, curr_ic |-> ci, code |-> c, symbols |-> sy]
        fail(err) == st(FALSE, err, curr_ic, code, symbols)
        sym_name == IF mode = RELATIVE THEN Sub(operand, 1, Len(operand)) ELSE operand
        s == find_symbol(symbols, sym_name)
        symbol == symbols[s]
        value == IF mode = DIRECT THEN symbol.address ELSE symbol.address - start_ic
        are_value == IF mode = DIRECT
                     THEN IF symbol.type = SYMBOL_EXTERN THEN ARE_EXTERNAL
                          ELSE ARE_RELOCATABLE
                     ELSE ARE_ABSOLUTE
        new_entry == [name |-> sym_name, address |-> curr_ic + 1, type |-> SYMBOL_EXTERN]
        sy == IF mode = DIRECT /\ symbol.type = SYMBOL_EXTERN
              THEN Append(symbols, new_entry)
              ELSE symbols
        word == DataCell(create_data_word(are_value, value))
    IN  IF mode = IMMEDIATE THEN st(TRUE, NoError, curr_ic + 1, code, symbols)
        ELSE IF mode = REGISTER_MODE THEN st(TRUE, NoError, curr_ic, code, symbols)
        ELSE IF mode = DIRECT \/ mode = RELATIVE
        THEN IF s = 0 THEN fail(ErrUndefinedSymbol)
             ELSE IF mode = RELATIVE /\ symbol.type # SYMBOL_CODE THEN fail(ErrNotCodeLabel)
             ELSE st(TRUE, NoError, curr_ic + 1,
                     Store(code, curr_ic + 1 - START_IC, word), sy)
        ELSE st(TRUE, NoError, curr_ic, code, symbols)

process_operand_second_pass(curr_ic, start_ic, operand, code, symbols, opcode) ==
    LET mode == get_addressing_mode(operand)
        st(ok, err, ci, c, sy) ==
            [ok |-> ok, err |-> err, curr_ic |-> ci, code |-> c, symbols |-> sy]
        fail(err) == st(FALSE, err, curr_ic, code, symbols)
        sym_name == IF mode = RELATIVE THEN Sub(operand, 1, Len(operand)) ELSE operand
        s == find_symbol(symbols, sym_name)
        symbol == symbols[s]
        value == IF mode = DIRECT THEN symbol.address ELSE symbol.address - start_ic
        are_value == IF mode = DIRECT
                     THEN IF symbol.type = SYMBOL_EXTERN THEN ARE_EXTERNAL
                          ELSE ARE_RELOCATABLE
                     ELSE ARE_ABSOLUTE
        new_entry == [name |-> sym_name, address |-> curr_ic + 1, type |-> SYMBOL_EXTERN]
        sy == IF mode = DIRECT /\ symbol.type = SYMBOL_EXTERN
              THEN Append(symbols, new_entry)
              ELSE symbols
        word == DataCell(create_data_word(are_value, value))
    IN  IF mode = IMMEDIATE THEN st(TRUE, NoError, curr_ic + 1, code, symbols)
        ELSE IF mode = REGISTER_MODE THEN st(TRUE, NoError, curr_ic, code, symbols)
        ELSE IF mode = DIRECT \/ mode = RELATIVE
        THEN IF s = 0 THEN fail(ErrUndefinedSymbol)
             ELSE IF mode = RELATIVE /\ opcode # OP_JUMPS THEN fail(ErrRelativeNotJump)
             ELSE IF mode = RELATIVE /\ symbol.type # SYMBOL_CODE THEN fail(ErrNotCodeLabel)
             ELSE st(TRUE, NoError, curr_ic + 1,
                     Store(code, curr_ic + 1 - START_IC, word), sy)
        ELSE st(TRUE, NoError, curr_ic, code, symbols)

\* crash: code[ic - START_IC] is a NULL pointer and is dereferenced for its
\* length tag; the process takes a segmentation fault.
first_operand(ic, code, symbols, p, opcode) ==
    IF p.count > 0
    THEN process_operand_second_pass(ic, ic, p.operands[1], code, symbols, opcode)
    ELSE [ok |-> TRUE, err |-> NoError, curr_ic |-> ic, code |-> code, symbols |-> symbols]

second_operand(r1, ic, p, opcode) ==
    IF r1.ok /\ p.count > 1
    THEN process_operand_second_pass(r1.curr_ic, ic, p.operands[2],
                                     r1.code, r1.symbols, opcode)
    ELSE r1

\* "Update IC"
update_ic(r2, ic, inst_len) ==
    [ok |-> r2.ok, err |-> r2.err, crash |-> FALSE, ic |-> ic + inst_len,
     code |-> r2.code, symbols |-> r2.symbols]

\* the line after parse_operands (p) and get_opcode_from_line (opcode)
resolve_operands(ic, code, symbols, p, opcode) ==
    IF ~p.ok
    THEN [ok |-> FALSE, err |-> ErrTooManyOperands, crash |-> FALSE, ic |-> ic,
          code |-> code, symbols |-> symbols]
    ELSE update_ic(second_operand(first_operand(ic, code, symbols, p, opcode),
                                  ic, p, opcode),
                   ic, code[ic - START_IC].is_instruction)

\* the index behind the label (if get_label finds one) and the white space
operation_index(text) ==
    skip_whitespace(text, IF get_label(text).found
                          THEN span(text, 0, {":"}, Len(text)) + 1
                          ELSE 0)

resolve_symbols(text, ic, code, symbols) ==
    IF (ic - START_IC) \notin DOMAIN code
    THEN [ok |-> FALSE, err |-> NoError, crash |-> TRUE, ic |-> ic, code |-> code,
          symbols |-> symbols]
    ELSE resolve_operands(ic, code, symbols,
             parse_operands(text,
                 skip_whitespace(text,
                     span(text, operation_index(text), {" ", "\t", "\n"}, Len(text))),
                 <<>>),
             get_opcode_from_line(text))

\* a variant of process_line_second_pass without the test "already marked as
\* entry" (C22 fails of it)
process_line_second_pass_promote_again(text, ic, code, symbols) ==
    LET st(ok, err, sy) ==
            [ok |-> ok, err |-> err, crash |-> FALSE, ic |-> ic, code |-> code,
             symbols |-> sy]
        index0 == skip_whitespace(text, 0)
        index1 == IF str_chr(text, ":")
                  THEN span(text, index0, {":"}, Len(text)) + 1
                  ELSE index0
        index2 == skip_whitespace(text, index1)
        index3 == skip_whitespace(text, index2 + 6)
        e == span(text, index3, {" ", "\t", "\n"}, Len(text))
        raw == Sub(text, index3, e)
        label == IF Ch(raw, 0) = "&" THEN Sub(raw, 1, Len(raw)) ELSE raw
        c == find_symbol_by_type(symbols, label, SYMBOL_CODE)
        entry == IF c # 0 THEN c ELSE find_symbol_by_type(symbols, label, SYMBOL_DATA)
    IN  IF Ch(text, index0) \in {NUL, ";", "\n"} THEN st(TRUE, NoError, symbols)
        ELSE IF Ch(text, index2) = "."
        THEN IF HasPrefix(text, index2, <<".", "e", "n", "t", "r", "y">>)
             THEN IF Ch(text, index3) = NUL THEN st(FALSE, ErrMissingEntryLabel, symbols)
                  ELSE IF e - index3 > MAX_SOURCE_LINE - 1
                  THEN st(FALSE, ErrLabelTooLong, symbols)
                  ELSE IF entry = 0
                  THEN IF find_symbol_by_type(symbols, label, SYMBOL_EXTERN) # 0
                       THEN st(FALSE, ErrExternAndEntry, symbols)
                       ELSE st(FALSE, ErrUndefinedEntry, symbols)
                  ELSE st(TRUE, NoError, [symbols EXCEPT ![entry].type = SYMBOL_ENTRY])
             ELSE st(TRUE, NoError, symbols)
        ELSE resolve_symbols(text, ic, code, symbols)

process_line_second_pass(text, ic, code, symbols) ==
    LET st(ok, err, sy) ==
            [ok |-> ok, err |-> err, crash |-> FALSE, ic |-> ic, code |-> code,
             symbols |-> sy]
        index0 == skip_whitespace(text, 0)
        index1 == IF str_chr(text, ":")
                  THEN span(text, index0, {":"}, Len(text)) + 1
                  ELSE index0
        index2 == skip_whitespace(text, index1)
        index3 == skip_whitespace(text, index2 + 6)
        e == span(text, index3, {" ", "\t", "\n"}, Len(text))
        raw == Sub(text, index3, e)
        label == IF Ch(raw, 0) = "&" THEN Sub(raw, 1, Len(raw)) ELSE raw
        c == find_symbol_by_type(symbols, label, SYMBOL_CODE)
        entry == IF c # 0 THEN c ELSE find_symbol_by_type(symbols, label, SYMBOL_DATA)
    IN  IF Ch(text, index0) \in {NUL, ";", "\n"} THEN st(TRUE, NoError, symbols)
        ELSE IF Ch(text, index2) = "."
        THEN IF HasPrefix(text, index2, <<".", "e", "n", "t", "r", "y">>)
             THEN IF Ch(text, index3) = NUL THEN st(FALSE, ErrMissingEntryLabel, symbols)
                  ELSE IF e - index3 > MAX_SOURCE_LINE - 1
                  THEN st(FALSE, ErrLabelTooLong, symbols)
                  ELSE IF find_symbol_by_type(symbols, label, SYMBOL_ENTRY) # 0
                  THEN st(TRUE, NoError, symbols)
                  ELSE IF entry = 0
                  THEN IF find_symbol_by_type(symbols, label, SYMBOL_EXTERN) # 0
                       THEN st(FALSE, ErrExternAndEntry, symbols)
                       ELSE st(FALSE, ErrUndefinedEntry, symbols)
                  ELSE st(TRUE, NoError, [symbols EXCEPT ![entry].type = SYMBOL_ENTRY])
             ELSE st(TRUE, NoError, symbols)
        ELSE resolve_symbols(text, ic, code, symbols)

(***************************************************************************)
(* the writers (writefiles.c)                                              *)
(***************************************************************************)
\* a variant of encode_number without the mask (C27 fails of it)
encode_number_unmasked(num) == num

\* sprintf(buf, "%06lx", num & 0xFFFFFF): the 24-bit number the six digits show
encode_number(num) == num % 16777216

\* the word of a code cell as write_object_file packs it, before the mask
PackCell(cell) ==
    IF cell.is_instruction # 0
    THEN cell.code.op * 262144 + cell.code.src_mode * 65536
         + cell.code.src_reg * 8192 + cell.code.dest_mode * 2048
         + cell.code.dest_reg * 256 + cell.code.func * 8 + cell.code.are
    ELSE (cell.data.value % 2097152) * 8 + cell.data.are

\* the loop over the code image: one line for every cell that is set
CodeLines(code, addr, code_size) ==
    LET Present(a) == a \in DOMAIN code
        present == SelectSeq([k \in 1..(code_size - addr) |-> addr + k - 1], Present)
    IN  [k \in 1..Len(present) |->
            [address |-> present[k] + START_IC,
             word |-> encode_number(PackCell(code[present[k]]))]]

\* The .ob file: the header line, then the code lines, then the data lines.
write_object_file(code, data, ic, dc) ==
    [code_size |-> ic - START_IC,
     data_size |-> dc,
     code |-> CodeLines(code, 0, ic - START_IC),
     data |-> [addr \in 1..dc |->
                  [address |-> addr - 1 + ic, word |-> encode_number(data[addr - 1])]]]

\* A file that was not created.  write_entry_file and write_extern_file
\* create no file when they have no line to write: NoLines.
NoFile == "NoFile"
NoLines == <<>>

\* the file line of a symbol: fprintf(fp, "%s %07ld\n", name, address)
SymbolLine(entry) == [name |-> entry.name, address |-> entry.address]

IsEntry(entry) == entry.type = SYMBOL_ENTRY
IsExternRef(entry) == entry.type = SYMBOL_EXTERN /\ entry.address # 0

\* a variant of write_entry_file that writes a line for every symbol of the
\* table (C23 fails of it)
write_entry_file_every_symbol(symbols) ==
    IF \E k \in 1..Len(symbols) : IsEntry(symbols[k])
    THEN [k \in 1..Len(symbols) |-> SymbolLine(symbols[k])]
    ELSE NoLines

write_entry_file(symbols) ==
    IF \E k \in 1..Len(symbols) : IsEntry(symbols[k])
    THEN LET sel == SelectSeq(symbols, IsEntry)
         IN  [k \in 1..Len(sel) |-> SymbolLine(sel[k])]
    ELSE NoLines

write_extern_file(symbols) ==
    IF \E k \in 1..Len(symbols) : IsExternRef(symbols[k])
    THEN LET sel == SelectSeq(symbols, IsExternRef)
         IN  [k \in 1..Len(sel) |-> SymbolLine(sel[k])]
    ELSE NoLines

(***************************************************************************)
(* preprocessor.c.  The macro table is the static array macros with the    *)
(* static counter macro_count: a sequence of entries [name, lines], of     *)
(* which the first macro_count are the macros of the file being read.      *)
(* free_macros and the start of preprocess_file reset the counter and      *)
(* leave the entries in the array.                                         *)
(***************************************************************************)
\* str_trim: the text without its leading and its trailing white space
str_trim(str) ==
    LET i == Min({k \in 0..Len(str) : k = Len(str) \/ ~isspace(Ch(str, k))})
        len == Min({k \in i..Len(str) : \A x \in k..(Len(str) - 1) : isspace(Ch(str, x))})
    IN  Sub(str, i, len)

ReservedWords ==
    {<<"m", "c", "r", "o">>, <<"m", "c", "r", "o", "e", "n", "d">>,
     <<".", "d", "a", "t", "a">>, <<".", "s", "t", "r", "i", "n", "g">>,
     <<".", "e", "n", "t", "r", "y">>, <<".", "e", "x", "t", "e", "r", "n">>}
    \cup {OpTable[k].name : k \in 1..Len(OpTable)}

is_valid_macro_name(name) ==
    /\ isalpha(Ch(name, 0))
    /\ \A i \in 2..Len(name) : isalnum(name[i]) \/ name[i] = "_"
    /\ name \notin ReservedWords

\* a variant of find_macro that searches the whole array (C13 fails of it)
find_macro_whole_array(macros, macro_count, name) ==
    LET S == {k \in 1..Len(macros) : macros[k].name = name}
    IN  IF S = {} THEN 0 ELSE Min(S)

\* the index of the first of the macro_count macros with the name, 0 for NULL
find_macro(macros, macro_count, name) ==
    LET S == {k \in 1..Min({macro_count, Len(macros)}) : macros[k].name = name}
    IN  IF S = {} THEN 0 ELSE Min(S)

\* a variant of add_macro that accepts every name (C17 fails of it)
add_macro_unchecked(macros, macro_count, name) ==
    [ok |-> TRUE,
     macros |-> SubSeq(macros, 1, macro_count) \o <<[name |-> name, lines |-> <<>>]>>
                \o SubSeq(macros, macro_count + 2, Len(macros)),
     macro_count |-> macro_count + 1]

add_macro(macros, macro_count, name) ==
    IF \/ macro_count >= MAX_MACROS
       \/ ~is_valid_macro_name(name)
       \/ find_macro(macros, macro_count, name) # 0
    THEN [ok |-> FALSE, macros |-> macros, macro_count |-> macro_count]
    ELSE [ok |-> TRUE,
          macros |-> SubSeq(macros, 1, macro_count) \o <<[name |-> name, lines |-> <<>>]>>
                     \o SubSeq(macros, macro_count + 2, Len(macros)),
          macro_count |-> macro_count + 1]

\* a variant of add_line_to_macro that puts the line in front (C15 fails of it)
add_line_to_macro_in_front(macros, macro_count, line) ==
    IF macro_count <= 0 \/ Len(macros[macro_count].lines) >= MAX_MACRO_LINES
    THEN [ok |-> FALSE, macros |-> macros]
    ELSE [ok |-> TRUE,
          macros |-> [macros EXCEPT ![macro_count].lines = <<line>> \o @]]

add_line_to_macro(macros, macro_count, line) ==
    IF macro_count <= 0 \/ Len(macros[macro_count].lines) >= MAX_MACRO_LINES
    THEN [ok |-> FALSE, macros |-> macros]
    ELSE [ok |-> TRUE,
          macros |-> [macros EXCEPT ![macro_count].lines = Append(@, line)]]

\* What one iteration of the loop of preprocess_file leaves: whether the loop
\* goes on, the flag in_macro, the macro table, the lines printed to the
\* output, and whether the name written to macro_name[MAX_MACRO_NAME] went
\* beyond the buffer.
Iteration(ok, in_macro, macros, macro_count, out, overrun) ==
    [ok |-> ok, in_macro |-> in_macro, macros |-> macros,
     macro_count |-> macro_count, out |-> out, overrun |-> overrun]

\* the line starts with the word and white space or the end follows the word
StartsWithWord(trimmed, i, word) ==
    /\ HasPrefix(trimmed, i, word)
    /\ (isspace(Ch(trimmed, i + Len(word))) \/ Ch(trimmed, i + Len(word)) = NUL)

\* the mcro line, from the name on (name_start .. i)
macro_start(trimmed, name_start, i, macros, macro_count) ==
    IF i = name_start
    THEN Iteration(FALSE, FALSE, macros, macro_count, <<>>, FALSE)
    ELSE IF Ch(trimmed, skip_whitespace(trimmed, i)) # NUL
    THEN Iteration(FALSE, FALSE, macros, macro_count, <<>>, i - name_start >= MAX_MACRO_NAME)
    ELSE LET added == add_macro(macros, macro_count, Sub(trimmed, name_start, i))
         IN  Iteration(added.ok, added.ok, added.macros, added.macro_count, <<>>,
                       i - name_start >= MAX_MACRO_NAME)

\* a variant of macro_end that accepts mcroend with no definition open (C16
\* fails of it)
macro_end_lenient(trimmed, i, in_macro, macros, macro_count) ==
    IF Ch(trimmed, skip_whitespace(trimmed, i + 7)) # NUL
    THEN Iteration(FALSE, in_macro, macros, macro_count, <<>>, FALSE)
    ELSE Iteration(TRUE, FALSE, macros, macro_count, <<>>, FALSE)

\* the mcroend line
macro_end(trimmed, i, in_macro, macros, macro_count) ==
    IF ~in_macro
    THEN Iteration(FALSE, in_macro, macros, macro_count, <<>>, FALSE)
    ELSE IF Ch(trimmed, skip_whitespace(trimmed, i + 7)) # NUL
    THEN Iteration(FALSE, in_macro, macros, macro_count, <<>>, FALSE)
    ELSE Iteration(TRUE, FALSE, macros, macro_count, <<>>, FALSE)

\* a line inside a definition
macro_body(line_buf, macros, macro_count) ==
    LET added == add_line_to_macro(macros, macro_count, line_buf)
    IN  Iteration(added.ok, TRUE, added.macros, macro_count, <<>>, FALSE)

\* a variant of macro_usage that prints the trimmed line (C14 fails of it)
macro_usage_trimmed(line_buf, found, macros, macro_count) ==
    Iteration(TRUE, FALSE, macros, macro_count,
              IF found # 0 THEN macros[found].lines ELSE <<str_trim(line_buf)>>, FALSE)

\* a line outside a definition: the body of the macro it names, or the line
macro_usage(line_buf, found, macros, macro_count) ==
    Iteration(TRUE, FALSE, macros, macro_count,
              IF found # 0 THEN macros[found].lines ELSE <<line_buf>>, FALSE)

\* a variant of preprocess_line that tests for an empty line or a comment
\* only outside a definition (C30 fails of it)
preprocess_line_recording_all(line_buf, trimmed, i, in_macro, macros, macro_count) ==
    IF ~in_macro /\ (Ch(trimmed, 0) = NUL \/ Ch(trimmed, 0) = ";")
    THEN Iteration(TRUE, in_macro, macros, macro_count, <<line_buf>>, FALSE)
    ELSE IF StartsWithWord(trimmed, i, <<"m", "c", "r", "o">>)
    THEN IF in_macro
         THEN Iteration(FALSE, in_macro, macros, macro_count, <<>>, FALSE)
         ELSE macro_start(trimmed, skip_whitespace(trimmed, i + 4),
                          span(trimmed, skip_whitespace(trimmed, i + 4),
                               {" ", "\t", "\n", "\f", "\r"}, MAX_SOURCE_LINE),
                          macros, macro_count)
    ELSE IF StartsWithWord(trimmed, i, <<"m", "c", "r", "o", "e", "n", "d">>)
    THEN macro_end(trimmed, i, in_macro, macros, macro_count)
    ELSE IF in_macro
    THEN macro_body(line_buf, macros, macro_count)
    ELSE macro_usage(line_buf, find_macro(macros, macro_count, Sub(trimmed, i, Len(trimmed))),
                     macros, macro_count)

\* the body of the loop of preprocess_file for the line read into line_buf
preprocess_line(line_buf, trimmed, i, in_macro, macros, macro_count) ==
    IF Ch(trimmed, 0) = NUL \/ Ch(trimmed, 0) = ";"
    THEN Iteration(TRUE, in_macro, macros, macro_count, <<line_buf>>, FALSE)
    ELSE IF StartsWithWord(trimmed, i, <<"m", "c", "r", "o">>)
    THEN IF in_macro
         THEN Iteration(FALSE, in_macro, macros, macro_count, <<>>, FALSE)
         ELSE macro_start(trimmed, skip_whitespace(trimmed, i + 4),
                          span(trimmed, skip_whitespace(trimmed, i + 4),
                               {" ", "\t", "\n", "\f", "\r"}, MAX_SOURCE_LINE),
                          macros, macro_count)
    ELSE IF StartsWithWord(trimmed, i, <<"m", "c", "r", "o", "e", "n", "d">>)
    THEN macro_end(trimmed, i, in_macro, macros, macro_count)
    ELSE IF in_macro
    THEN macro_body(line_buf, macros, macro_count)
    ELSE macro_usage(line_buf, find_macro(macros, macro_count, Sub(trimmed, i, Len(trimmed))),
                     macros, macro_count)

(***************************************************************************)
(* Expanded sources.  A job is run on every source of at most MaxLines     *)
(* lines taken from the catalog.                                           *)
(***************************************************************************)
MaxLines == 4

\* stop
LineStop ==
    <<"s", "t", "o", "p", "\n">>

\* B: .data 5
LineDataB ==
    <<"B", ":", " ", ".", "d", "a", "t", "a", " ", "5", "\n">>

\* A: prn #-1
LinePrnA ==
    <<"A", ":", " ", "p", "r", "n", " ", "#", "-", "1", "\n">>

\* A: .data 7, -2
LineDataA ==
    <<"A", ":", " ", ".", "d", "a", "t", "a", " ", "7", ",", " ", "-", "2", "\n">>

\* .extern A
LineExternA ==
    <<".", "e", "x", "t", "e", "r", "n", " ", "A", "\n">>

\* jmp A
LineJmpA ==
    <<"j", "m", "p", " ", "A", "\n">>

\* jmp &A
LineJmpRelA ==
    <<"j", "m", "p", " ", "&", "A", "\n">>

\* .entry A
LineEntryA ==
    <<".", "e", "n", "t", "r", "y", " ", "A", "\n">>

\* mov B, A
LineMovBA ==
    <<"m", "o", "v", " ", "B", ",", " ", "A", "\n">>

\* .string ":"
LineString ==
    <<".", "s", "t", "r", "i", "n", "g", " ", "\"", ":", "\"", "\n">>

Catalog ==
    {LineStop,
     LineMovBA,
     LineDataB,
     LinePrnA,
     LineDataA,
     LineExternA,
     LineJmpA,
     LineJmpRelA,
     LineEntryA,
     LineString}

Sources == UNION {[1..n -> Catalog] : n \in 1..MaxLines}

(***************************************************************************)
(* One job: process_file (assembler.c) after the .am file is opened.       *)
(*   am        the lines of the expanded source                            *)
(*   pc        where process_file stands: in the loop of the first pass,   *)
(*             in the loop of the second pass, returned ("done"), or       *)
(*             stopped by a segmentation fault ("crashed")                 *)
(*   line_num  the number of the line the next fgets will return           *)
(*   ic, dc, code, data, symbols, success, final_ic   locals of the job    *)
(*   diag      the diagnostic of the last line the second pass processed   *)
(*   ob, ent, ext   the artifacts: NoFile, NoLines until written            *)
(* History variables (they record values the code computes, and no action  *)
(* reads them):                                                            *)
(*   inst_at   line number -> the ic_start of the instruction word that    *)
(*             the first pass stored for the line                          *)
(*   registered  symbol name -> the kind it was inserted with and the      *)
(*             value of the counters when its line was read                *)
(***************************************************************************)
VARIABLES am, pc, line_num, ic, dc, code, data, symbols, success, final_ic,
          diag, ob, ent, ext, inst_at, registered

(***************************************************************************)
(* The run: main (assembler.c) with its jobs, and preprocess_file.         *)
(*   argv      the sources (.as files) of the basenames of the command     *)
(*             line, in their order                                        *)
(*   job       the index of the basename main is at                        *)
(*   results   what the jobs that have returned left: the .am file, the    *)
(*             value process_file returned, and the artifacts              *)
(*   source    the lines of the .as file of the job                        *)
(*   as_line_num  the number of the line the next fgets of preprocess_file *)
(*             will return                                                 *)
(*   macros, macro_count   the static macro table of preprocessor.c        *)
(*   in_macro  the flag of preprocess_file                                 *)
(* pc has the further positions "preprocess" (in preprocess_file) and      *)
(* "exit" (main has returned).                                             *)
(***************************************************************************)
VARIABLES argv, job, results, source, as_line_num, macros, macro_count, in_macro

prevars == <<argv, job, results, source, as_line_num, macros, macro_count, in_macro>>

(***************************************************************************)
(* The resources of the job.                                               *)
(*   heap      what the job has acquired and not released: the file-name   *)
(*             buffer input_filename, the streams input_fp and output_fp   *)
(*             of preprocess_file and fp of process_file, the symbol table *)
(*             (with its entries), the code words (with their contents) by *)
(*             their index in the code image, the lines of the macros, the *)
(*             operand strings of resolve_symbols by their line, and the   *)
(*             code words whose cell was given another word                *)
(***************************************************************************)
VARIABLES heap

vars == <<am, pc, line_num, ic, dc, code, data, symbols, success, final_ic,
          diag, ob, ent, ext, inst_at, registered, prevars, heap>>

Resource(kind, at) == [kind |-> kind, at |-> at]

\* malloc of input_filename, and the two fopen of preprocess_file
AcquiredAtStart ==
    {Resource("input_filename", 0), Resource("input_fp", 0), Resource("output_fp", 0)}

\* after preprocess_file: fopen of the .am file, free(input_filename),
\* create_symbol_table
AcquiredForPasses == {Resource("fp", 0), Resource("symbols", 0)}

\* the code words allocated between two values of the code image
CodeWords(old, new) == {Resource("code", k) : k \in (DOMAIN new) \ (DOMAIN old)}

\* the copies add_line_to_macro made for the macros below macro_count
MacroLines(table, count) ==
    UNION {{Resource("macro_line", (m - 1) * MAX_MACRO_LINES + j) :
               j \in 1..Len(table[m].lines)} : m \in 1..count}

\* "Cleanup" of process_file: fclose(fp), free of the code words below
\* ic - START_IC, free_symbol_table
Cleanup(held, counter) ==
    {h \in held : /\ h.kind \notin {"fp", "symbols"}
                  /\ ~(h.kind = "code" /\ h.at < counter - START_IC)}

\* behind the loop of preprocess_file: the two fclose and free_macros
ClosePreprocess(held, table, count) ==
    (held \ {Resource("input_fp", 0), Resource("output_fp", 0)}) \ MacroLines(table, count)

\* The cells of the code image that the second pass stores a new data word in
\* on a line: the cell behind curr_ic, for every Direct or Relative operand
\* that process_operand_second_pass resolves.
SecondPassWrites(text, counter, image, table) ==
    LET index0 == skip_whitespace(text, 0)
        index1 == IF str_chr(text, ":")
                  THEN span(text, index0, {":"}, Len(text)) + 1
                  ELSE index0
        index2 == skip_whitespace(text, index1)
        p == parse_operands(text,
                 skip_whitespace(text,
                     span(text, operation_index(text), {" ", "\t", "\n"}, Len(text))),
                 <<>>)
        r1 == first_operand(counter, image, table, p, get_opcode_from_line(text))
        r2 == second_operand(r1, counter, p, get_opcode_from_line(text))
        Stored(k) == get_addressing_mode(p.operands[k]) \in {DIRECT, RELATIVE}
    IN  IF Ch(text, index0) \in {NUL, ";", "\n"} \/ Ch(text, index2) = "."
        THEN {}
        ELSE IF (counter - START_IC) \notin DOMAIN image \/ ~p.ok
        THEN {}
        ELSE (IF p.count > 0 /\ r1.ok /\ Stored(1)
              THEN {r1.curr_ic - START_IC} ELSE {})
             \cup (IF p.count > 1 /\ r1.ok /\ r2.ok /\ Stored(2)
                   THEN {r2.curr_ic - START_IC} ELSE {})

\* the code words whose pointer the second pass has replaced on a line: the
\* word that was in the cell is allocated and no pointer to it is left
OverwrittenWords(writes, at, image) ==
    {Resource("overwritten", at * MAX_CODE_SIZE + k) : k \in writes \cap DOMAIN image}

\* The operand strings resolve_symbols leaves allocated on a line: the second
\* operand, when the first operand fails.
UnfreedOperands(text, at, counter, image, table) ==
    LET index0 == skip_whitespace(text, 0)
        index1 == IF str_chr(text, ":")
                  THEN span(text, index0, {":"}, Len(text)) + 1
                  ELSE index0
        index2 == skip_whitespace(text, index1)
        p == parse_operands(text,
                 skip_whitespace(text,
                     span(text, operation_index(text), {" ", "\t", "\n"}, Len(text))),
                 <<>>)
    IN  IF Ch(text, index0) \in {NUL, ";", "\n"} \/ Ch(text, index2) = "."
        THEN {}
        ELSE IF (counter - START_IC) \notin DOMAIN image \/ ~p.ok \/ p.count < 2
        THEN {}
        ELSE IF first_operand(counter, image, table, p, get_opcode_from_line(text)).ok
        THEN {}
        ELSE {Resource("operand", at)}

\* the locals of process_file as their initialisers set them
JobLocals ==
    /\ line_num = 1
    /\ ic = START_IC
    /\ dc = 0
    /\ code = <<>>
    /\ data = <<>>
    /\ symbols = <<>>
    /\ success = TRUE
    /\ final_ic = 0
    /\ diag = NoError
    /\ ob = NoFile
    /\ ent = NoLines
    /\ ext = NoLines
    /\ inst_at = <<>>
    /\ registered = <<>>

\* the job as process_file has set it up when it enters the first pass
JobStart == pc = "first_pass" /\ JobLocals /\ heap = AcquiredForPasses

\* A run of one job whose source holds no macro line, after preprocess_file
\* has returned: the .am file is the source, the macro table is empty.
Preprocessed ==
    /\ argv = <<am>>
    /\ job = 1
    /\ results = <<>>
    /\ source = am
    /\ as_line_num = Len(am) + 1
    /\ macros = <<>>
    /\ macro_count = 0
    /\ in_macro = FALSE

Init == am \in Sources /\ Preprocessed /\ JobStart

\* the symbols of new that old does not have, with the counters of the line
Registered(old, new, ic0, dc0) ==
    [n \in {new[k].name : k \in (Len(old) + 1)..Len(new)} |->
        [type |-> new[find_symbol(new, n)].type, ic |-> ic0, dc |-> dc0]]

\* The images are the arrays code[MAX_CODE_SIZE] and data[MAX_CODE_SIZE] of
\* process_file.  A store at an index at or beyond MAX_CODE_SIZE is a write
\* outside the array: the process either takes a segmentation fault or goes
\* on with the value stored behind the array, where later reads of that index
\* find it.
OutOfBounds(image) == \E k \in DOMAIN image : k >= MAX_CODE_SIZE

\* a variant of the loop of the first pass without its break (C12 fails of it)
after_first_pass_line_no_break(ok) == "first_pass"

\* where the loop of the first pass goes after a line: on, or out by break
after_first_pass_line(ok) == IF ok THEN "first_pass" ELSE "done"

\* one iteration of the first-pass loop
FirstPassLine ==
    /\ pc = "first_pass"
    /\ line_num <= Len(am)
    /\ \E r \in {process_line_first_pass(am[line_num], ic, dc, code, data, symbols)} :
       LET reg == Registered(symbols, r.symbols, ic, dc)
       IN  /\ ic' = r.ic
           /\ dc' = r.dc
           /\ code' = r.code
           /\ data' = r.data
           /\ symbols' = r.symbols
           /\ line_num' = line_num + 1
           /\ \E outcome \in {after_first_pass_line(r.ok)}
                    \cup (IF OutOfBounds(r.code) \/ OutOfBounds(r.data)
                          THEN {"crashed"} ELSE {}) :
                 /\ pc' = outcome
                 /\ success' = (r.ok /\ outcome # "crashed")
                 /\ heap' = IF outcome = "done"
                            THEN Cleanup(heap \cup CodeWords(code, r.code), r.ic)
                            ELSE heap \cup CodeWords(code, r.code)
           /\ inst_at' = IF r.ok /\ r.code # code
                         THEN Store(inst_at, line_num, ic)
                         ELSE inst_at
           /\ registered' = [n \in (DOMAIN registered) \cup (DOMAIN reg) |->
                                IF n \in DOMAIN registered THEN registered[n] ELSE reg[n]]
    /\ UNCHANGED <<am, final_ic, diag, ob, ent, ext, prevars>>

\* a rebase that moves every symbol, whatever its type (C10 fails of it)
RebaseAll(table, by) ==
    [k \in 1..Len(table) |-> [table[k] EXCEPT !.address = @ + by]]

\* the data symbols are moved behind the code
RebaseData(table, by) ==
    [k \in 1..Len(table) |->
        IF table[k].type = SYMBOL_DATA
        THEN [table[k] EXCEPT !.address = @ + by]
        ELSE table[k]]

\* end of the source in the first pass: rebase, rewind
EndFirstPass ==
    /\ pc = "first_pass"
    /\ line_num > Len(am)
    /\ final_ic' = ic
    /\ symbols' = RebaseData(symbols, ic)
    /\ line_num' = 1
    /\ ic' = START_IC
    /\ pc' = "second_pass"
    /\ UNCHANGED <<am, dc, code, data, success, diag, ob, ent, ext, inst_at, registered,
                   prevars, heap>>

\* one iteration of the second-pass loop
SecondPassLine ==
    /\ pc = "second_pass"
    /\ line_num <= Len(am)
    /\ \E r \in {process_line_second_pass(am[line_num], ic, code, symbols)} :
           /\ ic' = r.ic
           /\ code' = r.code
           /\ symbols' = r.symbols
           /\ diag' = r.err
           /\ line_num' = line_num + 1
           /\ \E outcome \in (IF r.crash THEN {}
                               ELSE {IF r.ok THEN "second_pass" ELSE "done"})
                    \cup (IF r.crash \/ OutOfBounds(r.code) THEN {"crashed"} ELSE {}) :
                 /\ pc' = outcome
                 /\ success' = (r.ok /\ outcome # "crashed")
                 /\ \E held \in {heap \cup CodeWords(code, r.code)
                                    \cup UnfreedOperands(am[line_num], line_num, ic,
                                                         code, symbols)
                                    \cup OverwrittenWords(
                                             SecondPassWrites(am[line_num], ic, code,
                                                              symbols),
                                             line_num, code)} :
                       heap' = IF outcome = "done" THEN Cleanup(held, r.ic) ELSE held
    /\ UNCHANGED <<am, dc, data, final_ic, ob, ent, ext, inst_at, registered, prevars>>

\* end of the source in the second pass: the artifacts are written
WriteFiles ==
    /\ pc = "second_pass"
    /\ line_num > Len(am)
    /\ ob' = write_object_file(code, data, ic, dc)
    /\ ent' = write_entry_file(symbols)
    /\ ext' = write_extern_file(symbols)
    /\ pc' = "done"
    /\ heap' = Cleanup(heap, ic)
    /\ UNCHANGED <<am, line_num, ic, dc, code, data, symbols, success, final_ic,
                   diag, inst_at, registered, prevars>>

Next == FirstPassLine \/ EndFirstPass \/ SecondPassLine \/ WriteFiles

Spec == Init /\ [][Next]_vars

(***************************************************************************)
(* Long sources: a line of three code cells repeated until the code image  *)
(* is full and beyond, and a line of ten data cells repeated until the     *)
(* data image is full and beyond.                                          *)
(***************************************************************************)
MaxExcess == 1

\* cmp #1, #1
LineCmpImm ==
    <<"c", "m", "p", " ", "#", "1", ",", " ", "#", "1", "\n">>

\* .data 1,1,1,1,1,1,1,1,1,1
LineData10 ==
    <<".", "d", "a", "t", "a", " ">>
    \o [k \in 1..19 |-> IF k % 2 = 1 THEN "1" ELSE ","] \o <<"\n">>

LongSources ==
    {[k \in 1..n |-> LineCmpImm] :
        n \in (MAX_CODE_SIZE \div 3)..(MAX_CODE_SIZE \div 3 + MaxExcess)}
    \cup {[k \in 1..n |-> LineData10] :
        n \in (MAX_CODE_SIZE \div 10)..(MAX_CODE_SIZE \div 10 + MaxExcess)}

InitOverflow == am \in LongSources /\ Preprocessed /\ JobStart

SpecOverflow == InitOverflow /\ [][Next]_vars

(***************************************************************************)
(* preprocess_file and the loop of main as steps.                          *)
(***************************************************************************)
\* one iteration of the loop of preprocess_file
PreprocessLine ==
    /\ pc = "preprocess"
    /\ success
    /\ as_line_num <= Len(source)
    /\ \E r \in {preprocess_line(source[as_line_num], str_trim(source[as_line_num]),
                                 skip_whitespace(str_trim(source[as_line_num]), 0),
                                 in_macro, macros, macro_count)} :
           /\ am' = am \o r.out
           /\ macros' = r.macros
           /\ macro_count' = r.macro_count
           /\ in_macro' = r.in_macro
           /\ as_line_num' = as_line_num + 1
           /\ heap' = heap \cup MacroLines(r.macros, r.macro_count)
           /\ \E outcome \in {"preprocess"} \cup (IF r.overrun THEN {"crashed"} ELSE {}) :
                 /\ pc' = outcome
                 /\ success' = (r.ok /\ outcome # "crashed")
    /\ UNCHANGED <<line_num, ic, dc, code, data, symbols, final_ic, diag, ob, ent, ext,
                   inst_at, registered, argv, job, results, source>>

\* behind the loop of preprocess_file, left by break or at the end of the
\* input: the test of in_macro, free_macros, and the return to process_file,
\* which returns FALSE or goes on to the first pass
EndPreprocess ==
    /\ pc = "preprocess"
    /\ ~success \/ as_line_num > Len(source)
    /\ success' = (success /\ ~in_macro)
    /\ macro_count' = 0
    /\ pc' = IF success /\ ~in_macro THEN "first_pass" ELSE "done"
    /\ heap' = IF success /\ ~in_macro
               THEN (ClosePreprocess(heap, macros, macro_count)
                        \ {Resource("input_filename", 0)}) \cup AcquiredForPasses
               ELSE ClosePreprocess(heap, macros, macro_count)
    /\ UNCHANGED <<am, line_num, ic, dc, code, data, symbols, final_ic, diag, ob, ent, ext,
                   inst_at, registered, argv, job, results, source, as_line_num, macros,
                   in_macro>>

\* what a job leaves behind
Outcome == [am |-> am, success |-> success, ob |-> ob, ent |-> ent, ext |-> ext]

\* process_file has returned to the loop of main: the next basename, with the
\* locals of process_file and of preprocess_file initialised anew and
\* macro_count reset, or the return of main
NextJob ==
    /\ pc = "done"
    /\ results' = Append(results, Outcome)
    /\ IF job < Len(argv)
       THEN /\ job' = job + 1
            /\ source' = argv[job + 1]
            /\ am' = <<>>
            /\ as_line_num' = 1
            /\ in_macro' = FALSE
            /\ macro_count' = 0
            /\ pc' = "preprocess"
            /\ line_num' = 1
            /\ ic' = START_IC
            /\ dc' = 0
            /\ code' = <<>>
            /\ data' = <<>>
            /\ symbols' = <<>>
            /\ success' = TRUE
            /\ final_ic' = 0
            /\ diag' = NoError
            /\ ob' = NoFile
            /\ ent' = NoLines
            /\ ext' = NoLines
            /\ inst_at' = <<>>
            /\ registered' = <<>>
            /\ heap' = AcquiredAtStart
            /\ UNCHANGED <<argv, macros>>
       ELSE /\ pc' = "exit"
            /\ UNCHANGED <<am, line_num, ic, dc, code, data, symbols, success, final_ic,
                           diag, ob, ent, ext, inst_at, registered, argv, job, source,
                           as_line_num, macros, macro_count, in_macro, heap>>

\* main at its first basename
RunStart ==
    /\ job = 1
    /\ results = <<>>
    /\ source = argv[1]
    /\ am = <<>>
    /\ as_line_num = 1
    /\ macros = <<>>
    /\ macro_count = 0
    /\ in_macro = FALSE
    /\ pc = "preprocess"
    /\ JobLocals
    /\ heap = AcquiredAtStart

(***************************************************************************)
(* Sources with macros, for preprocess_file alone: every source of at most *)
(* MaxRawLines lines of the raw catalog, and the sources that define M and *)
(* then open a definition with each of the probe names.                    *)
(***************************************************************************)
MaxRawLines == 4

McroLine(name) == <<"m", "c", "r", "o", " ">> \o name \o <<"\n">>

\* mcroend
LineMcroend ==
    <<"m", "c", "r", "o", "e", "n", "d", "\n">>

\* M, between white space
LineM ==
    <<" ", "M", " ", "\n">>

\* M stop
LineMStop ==
    <<"M", " ", "s", "t", "o", "p", "\n">>

\* ; M
LineComment ==
    <<";", " ", "M", "\n">>

RawCatalog ==
    {McroLine(<<"M">>), LineMcroend, LineM, LineMStop, LineStop, LineComment}

ProbeNames ==
    ReservedWords \cup {<<"M">>, <<"N">>, <<"M", "_", "1">>, <<"1", "M">>, <<"M", "-">>}

ProbeSources ==
    {<<McroLine(<<"M">>), LineStop, LineMcroend, McroLine(n), LineMcroend, LineM>> :
        n \in ProbeNames}

\* a line of white space
LineBlank ==
    <<" ", "\t", "\n">>

\* a source that defines M with a comment, a line and a line of white space
\* between mcro and mcroend, and names it twice
CommentedDefinition ==
    <<McroLine(<<"M">>), LineComment, LineStop, LineBlank, LineMcroend, LineM, LineM>>

\* a source that names M before its definition, defines it with two lines,
\* names it, and names it with further content; and the source with a
\* commented definition
UsageSources ==
    {<<LineM, McroLine(<<"M">>), LineMStop, LineStop, LineMcroend, LineM, LineMStop>>,
     CommentedDefinition}

RawSources ==
    UNION {[1..n -> RawCatalog] : n \in 1..MaxRawLines} \cup ProbeSources \cup UsageSources

InitPre == argv \in {<<s>> : s \in RawSources} /\ RunStart

NextPre == PreprocessLine \/ EndPreprocess

SpecPre == InitPre /\ [][NextPre]_vars

(***************************************************************************)
(* Runs of three jobs: a source of at most MaxRunLines lines of the run    *)
(* catalog is assembled, then one of the prior jobs, then the first source *)
(* again.                                                                  *)
(***************************************************************************)
MaxRunLines == 3

RunCatalog ==
    {McroLine(<<"M">>), LineMcroend, LineM, LineStop, LineJmpA, LinePrnA}

RunSources == UNION {[1..n -> RunCatalog] : n \in 1..MaxRunLines}

\* jobs that define a macro, leave a definition open, define labels and
\* data, fail in the first pass, and fail in the second pass
PriorJobs ==
    {<<McroLine(<<"M">>), LineStop, LineMcroend, LineM>>,
     <<McroLine(<<"M">>), LinePrnA>>,
     <<LinePrnA, LineDataB, LineStop>>,
     <<LinePrnA, LinePrnA>>,
     <<LineStop, LineJmpA>>}

Runs == {<<x, y, x>> : x \in RunSources, y \in PriorJobs}

InitRun == argv \in Runs /\ RunStart

NextRun == NextPre \/ Next \/ NextJob

SpecRun == InitRun /\ [][NextRun]_vars

(***************************************************************************)
(* Sources of instruction lines with operands of every classification:    *)
(* every source of at most MaxOperandLines lines of the operand catalog,   *)
(* and a source with a register as destination, a register as source, and  *)
(* an instruction without operands.                                        *)
(***************************************************************************)
MaxOperandLines == 2

\* prn &A
LinePrnRelA ==
    <<"p", "r", "n", " ", "&", "A", "\n">>

\* prn #x
LinePrnBadImm ==
    <<"p", "r", "n", " ", "#", "x", "\n">>

\* jmp &1
LineJmpBadRel ==
    <<"j", "m", "p", " ", "&", "1", "\n">>

\* inc ARR[r1]
LineIncIndexed ==
    <<"i", "n", "c", " ", "A", "R", "R", "[", "r", "1", "]", "\n">>

\* clr r1
LineClrR1 ==
    <<"c", "l", "r", " ", "r", "1", "\n">>

\* prn r2
LinePrnR2 ==
    <<"p", "r", "n", " ", "r", "2", "\n">>

\* red A
LineRedA ==
    <<"r", "e", "d", " ", "A", "\n">>

OperandCatalog ==
    {LineStop,
     LinePrnA,
     LineJmpRelA,
     LineMovBA,
     LinePrnRelA,
     LinePrnBadImm,
     LineJmpBadRel,
     LineIncIndexed,
     LineClrR1,
     LinePrnR2,
     LineRedA}

FieldSources == {<<LineClrR1, LinePrnR2, LineStop>>}

OperandSources ==
    UNION {[1..n -> OperandCatalog] : n \in 1..MaxOperandLines} \cup FieldSources

InitOperands == am \in OperandSources /\ Preprocessed /\ JobStart

SpecOperands == InitOperands /\ [][Next]_vars

(***************************************************************************)
(* What the first pass made of a line, read off the line as the first pass *)
(* reads it.  These operators serve the properties below.                  *)
(***************************************************************************)
\* the index behind the label prefix (if any) and the white space after it
BodyIndex(text) ==
    IF get_label(text).found
    THEN skip_whitespace(text, span(text, skip_whitespace(text, 0), {":"}, Len(text)) + 1)
    ELSE skip_whitespace(text, 0)

IsBlank(text) == Ch(text, skip_whitespace(text, 0)) \in {NUL, "\n", ";"}

\* the directive the first pass dispatches the line to (DIR_NONE: an instruction)
DirectiveOf(text) == get_instruction_type(text, BodyIndex(text)).dir

\* the operand of a directive line: the text up to the next white space
DirectiveOperand(text) ==
    LET i == skip_whitespace(text, get_instruction_type(text, BodyIndex(text)).index)
    IN  Sub(text, i, span(text, i, {" ", "\t", "\n"}, Len(text)))

\* the mnemonic, the opcode and the operands of an instruction line
Mnemonic(text) ==
    Sub(text, BodyIndex(text), span(text, BodyIndex(text), {" ", "\t", "\n"}, MAX_OP_LEN))

OpcodeOf(text) == get_operation_details(Mnemonic(text)).op

OperandsOf(text) ==
    parse_operands(text, BodyIndex(text) + Len(Mnemonic(text)), Mnemonic(text)).operands

\* an operand for which handle_extra_words moves IC by one cell
TakesCell(text, k) ==
    LET mode == get_addressing_mode(OperandsOf(text)[k])
    IN  mode \in {IMMEDIATE, DIRECT} \/ (mode = RELATIVE /\ OpcodeOf(text) = OP_JUMPS)

\* the lines for which the first pass stored an instruction word, and the
\* address of the cell reserved for operand k of such a line
InstructionLines == DOMAIN inst_at

OperandCell(l, k) ==
    inst_at[l] + 1 + (IF k = 2 /\ TakesCell(am[l], 1) THEN 1 ELSE 0)

\* the operands of the instruction lines: pairs <<line, operand number>>
OperandSites ==
    {<<l, k>> \in InstructionLines \X {1, 2} : k <= Len(OperandsOf(am[l]))}

ModeAt(site) == get_addressing_mode(OperandsOf(am[site[1]])[site[2]])

\* the label an operand names
LabelAt(site) ==
    LET operand == OperandsOf(am[site[1]])[site[2]]
    IN  IF Ch(operand, 0) = "&" THEN Sub(operand, 1, Len(operand)) ELSE operand

\* the job has returned TRUE: both passes succeeded and the files are written
JobSucceeded == pc = "done" /\ success

\* the code image holds a cell at an address (the pointer is not NULL), and
\* the cell it holds there is a given data word
Populated(address) == (address - START_IC) \in DOMAIN code

HoldsWord(address, word) ==
    Populated(address) /\ code[address - START_IC] = DataCell(word)

(***************************************************************************)
(* C1.  When both passes succeed, every cell of the code image below the   *)
(* final IC is populated when the object file is written, so the code_size *)
(* of the .ob header is the number of code lines of the body, and          *)
(* data_size is DC and the number of data lines.                           *)
(***************************************************************************)
C1_ObjectFileComplete ==
    JobSucceeded =>
        /\ \A address \in START_IC..(final_ic - 1) : Populated(address)
        /\ ob.code_size = Len(ob.code)
        /\ ob.data_size = dc
        /\ ob.data_size = Len(ob.data)

(***************************************************************************)
(* C2.  The second pass walks the layout of the first pass: when it reads  *)
(* an instruction line its IC is the address at which the first pass       *)
(* stored the instruction word of that line, and when it completes its IC  *)
(* is the final IC of the first pass.                                      *)
(***************************************************************************)
C2_SameLayout ==
    /\ (pc = "second_pass" /\ line_num \in InstructionLines) => ic = inst_at[line_num]
    /\ (pc = "second_pass" /\ line_num > Len(am)) => ic = final_ic
    /\ JobSucceeded => ic = final_ic

(***************************************************************************)
(* C3.  A line that the first pass handled as a .data, .string or .extern  *)
(* directive causes no action in the second pass: IC, the code image and   *)
(* the symbol table stay as they are and the line succeeds.                *)
(***************************************************************************)
HandledAsDataStringExtern(text) ==
    /\ ~IsBlank(text)
    /\ DirectiveOf(text) \in {DIR_DATA, DIR_STRING, DIR_EXTERN}

\* C3: a second-pass step on such a line changes nothing and goes on
C3_DirectiveNoAction ==
    [][(pc = "second_pass" /\ line_num <= Len(am)
          /\ HandledAsDataStringExtern(am[line_num]))
       => (ic' = ic /\ code' = code /\ symbols' = symbols
             /\ success' /\ pc' = "second_pass")]_vars

\* the second pass has processed line l and gone on
SecondPassDone(l) == (pc = "second_pass" /\ line_num > l) \/ JobSucceeded

\* what the first pass registered a name as
RegisteredAs(name, type) == name \in DOMAIN registered /\ registered[name].type = type

\* the operands of the given addressing mode
SitesOfMode(mode) == {site \in OperandSites : ModeAt(site) = mode}

(***************************************************************************)
(* C4.  For a Direct operand whose label is a code or data label, the cell *)
(* reserved for the operand holds, once the second pass has processed the  *)
(* line, a data word with ARE = 2 and the final address of the symbol: the *)
(* IC at its definition for a code label, the final IC plus the DC at its  *)
(* definition for a data label, defined before or after the reference.     *)
(***************************************************************************)
FinalAddress(name) ==
    IF registered[name].type = SYMBOL_DATA
    THEN final_ic + registered[name].dc
    ELSE registered[name].ic

\* C4: the reserved cell holds the final address with ARE = 2
C4_DirectRelocatable ==
    \A site \in SitesOfMode(DIRECT) :
        (/\ SecondPassDone(site[1])
         /\ \/ RegisteredAs(LabelAt(site), SYMBOL_CODE)
            \/ RegisteredAs(LabelAt(site), SYMBOL_DATA))
        => HoldsWord(OperandCell(site[1], site[2]),
                     [are |-> ARE_RELOCATABLE, value |-> FinalAddress(LabelAt(site))])

(***************************************************************************)
(* C5.  For a Relative operand of a jump-group instruction whose label is  *)
(* a code label, the cell reserved for the operand holds, once the second  *)
(* pass has processed the line, a data word with ARE = 4 and the address   *)
(* of the label minus the address of the instruction word of the line.     *)
(***************************************************************************)
C5_RelativeDistance ==
    \A site \in SitesOfMode(RELATIVE) :
        (/\ SecondPassDone(site[1])
         /\ OpcodeOf(am[site[1]]) = OP_JUMPS
         /\ RegisteredAs(LabelAt(site), SYMBOL_CODE))
        => HoldsWord(OperandCell(site[1], site[2]),
                     [are |-> ARE_ABSOLUTE,
                      value |-> registered[LabelAt(site)].ic - inst_at[site[1]]])

(***************************************************************************)
(* C6.  For a Direct operand whose label was declared by .extern, the cell *)
(* reserved for the operand holds, once the second pass has processed the  *)
(* line, a data word with value 0 and ARE = 1, and the symbol table holds  *)
(* exactly one Extern entry with the name of the label and the address of  *)
(* the cell; the .ext file has exactly one line per such operand.          *)
(***************************************************************************)
ExternSites == {site \in SitesOfMode(DIRECT) : RegisteredAs(LabelAt(site), SYMBOL_EXTERN)}

ExternReference(site) ==
    [name |-> LabelAt(site), type |-> SYMBOL_EXTERN,
     address |-> OperandCell(site[1], site[2])]

\* C6: value 0 and ARE = 1 in the cell, one Extern entry and one .ext line per operand
C6_ExternReferences ==
    /\ \A site \in ExternSites :
          SecondPassDone(site[1]) =>
              /\ HoldsWord(OperandCell(site[1], site[2]),
                           [are |-> ARE_EXTERNAL, value |-> 0])
              /\ Cardinality({k \in DOMAIN symbols : symbols[k] = ExternReference(site)}) = 1
    /\ JobSucceeded =>
          /\ Len(ext) = Cardinality(ExternSites)
          /\ \A site \in ExternSites :
                \E k \in DOMAIN ext : ext[k] = SymbolLine(ExternReference(site))

(***************************************************************************)
(* C8.  A .extern X line that the first pass processes when the symbol     *)
(* table already holds a symbol named X is an error: the line fails and    *)
(* the job fails.                                                          *)
(***************************************************************************)
ExternOfExisting ==
    /\ pc = "first_pass" /\ line_num <= Len(am)
    /\ ~IsBlank(am[line_num])
    /\ DirectiveOf(am[line_num]) = DIR_EXTERN
    /\ find_symbol(symbols, DirectiveOperand(am[line_num])) # 0

\* C8: a first-pass step on .extern X with X in the table fails the job
C8_ExternDuplicateFails ==
    [][ExternOfExisting => (~success' /\ pc' = "done")]_vars

(***************************************************************************)
(* C7.  While the first pass runs, and until the second pass appends the   *)
(* reference sites of external names, no two entries of the symbol table   *)
(* have the same name.  Of two entries with the same name the later one is *)
(* a reference site appended by the second pass: its type is Extern and    *)
(* its address is not zero.                                                *)
(***************************************************************************)
SecondPassStarted == final_ic # 0

\* C7: of two entries with one name the later is a reference site of the second pass
C7_UniqueNames ==
    \A i, j \in DOMAIN symbols :
        (i < j /\ symbols[i].name = symbols[j].name)
        => (SecondPassStarted /\ IsExternRef(symbols[j]))

\* a job succeeded on a source that refers twice to an external name, after
\* a first pass that registered a label as well
C7_Witness ==
    /\ JobSucceeded
    /\ \E i, j, k \in DOMAIN symbols :
          /\ i < j /\ j < k
          /\ symbols[i].name = symbols[j].name /\ symbols[j].name = symbols[k].name
    /\ \E n \in DOMAIN registered : registered[n].type # SYMBOL_EXTERN

(***************************************************************************)
(* C9.  In the second pass a .entry L line succeeds only if the symbol     *)
(* table holds an entry named L of type Code, Data or Entry, and then an   *)
(* entry named L has type Entry; if no entry is named L the line fails as  *)
(* undefined; if the entries named L are all Extern the line fails as a    *)
(* conflict of entry and extern; a failing line leaves the symbol table    *)
(* as it is.  No name ever has both an Entry and an Extern entry.          *)
(***************************************************************************)
EntryLine(text) == ~IsBlank(text) /\ DirectiveOf(text) = DIR_ENTRY

TypesOf(name) == {symbols[k].type : k \in {i \in DOMAIN symbols : symbols[i].name = name}}

NoEntryAndExtern ==
    \A i, j \in DOMAIN symbols :
        symbols[i].name = symbols[j].name
        => ~(symbols[i].type = SYMBOL_ENTRY /\ symbols[j].type = SYMBOL_EXTERN)

EntryStep ==
    LET L == DirectiveOperand(am[line_num])
    IN  /\ success' => /\ TypesOf(L) \cap {SYMBOL_CODE, SYMBOL_DATA, SYMBOL_ENTRY} # {}
                       /\ \E k \in DOMAIN symbols' :
                             symbols'[k].name = L /\ symbols'[k].type = SYMBOL_ENTRY
                       /\ Len(symbols') = Len(symbols)
                       /\ \A k \in DOMAIN symbols :
                             /\ symbols'[k].name = symbols[k].name
                             /\ symbols'[k].address = symbols[k].address
                             /\ symbols[k].name # L => symbols'[k] = symbols[k]
        /\ TypesOf(L) = {} => (~success' /\ diag' = ErrUndefinedEntry)
        /\ TypesOf(L) = {SYMBOL_EXTERN} => (~success' /\ diag' = ErrExternAndEntry)
        /\ ~success' => symbols' = symbols

\* C9: the invariant, and the effect of every second-pass step on a .entry line
C9_EntryPromotion ==
    /\ []NoEntryAndExtern
    /\ [][(pc = "second_pass" /\ line_num <= Len(am) /\ EntryLine(am[line_num]))
          => EntryStep]_vars

\* a job succeeded and wrote an entry file for a promoted label
C9_Witness ==
    /\ JobSucceeded
    /\ \E l \in DOMAIN am : EntryLine(am[l])
    /\ \E k \in DOMAIN symbols : symbols[k].type = SYMBOL_ENTRY
    /\ Len(ent) > 0

(***************************************************************************)
(* C10.  The rebase between the passes adds the final IC of the first pass *)
(* to the address of every Data symbol, once: before it the address is the *)
(* DC at the registration of the label, from then on it is the final IC    *)
(* plus that DC.  The address of a Code symbol stays the IC at its         *)
(* registration, and the address of an Extern declaration stays 0.         *)
(***************************************************************************)
\* the entries the first pass made: the first entry of each name
Declarations == {k \in DOMAIN symbols : find_symbol(symbols, symbols[k].name) = k}

\* C10: the address of each declaration, before and after the rebase
C10_RebaseOnce ==
    \A k \in Declarations :
        LET reg == registered[symbols[k].name]
        IN  /\ symbols[k].name \in DOMAIN registered
            /\ reg.type = SYMBOL_DATA =>
                  symbols[k].address = IF SecondPassStarted THEN final_ic + reg.dc ELSE reg.dc
            /\ reg.type = SYMBOL_CODE => symbols[k].address = reg.ic
            /\ reg.type = SYMBOL_EXTERN => symbols[k].address = 0

\* after the rebase: a data label registered at a DC above 0, behind code
\* that holds a code label
C10_Witness ==
    /\ pc = "second_pass"
    /\ final_ic > START_IC
    /\ \E k \in Declarations :
          /\ RegisteredAs(symbols[k].name, SYMBOL_DATA)
          /\ registered[symbols[k].name].dc > 0
          /\ symbols[k].address = final_ic + registered[symbols[k].name].dc
    /\ \E k \in Declarations : RegisteredAs(symbols[k].name, SYMBOL_CODE)

(***************************************************************************)
(* C11.  No cell with an index at or beyond the limit MAX_CODE_SIZE is     *)
(* ever written, in the code image or in the data image, and a job whose   *)
(* instructions need more cells than the limit fails.                      *)
(***************************************************************************)
C11_ImagesBounded ==
    /\ ~OutOfBounds(code)
    /\ ~OutOfBounds(data)
    /\ pc # "crashed"
    /\ (ic - START_IC > MAX_CODE_SIZE) => ~success

(***************************************************************************)
(* C12.  Fail-fast.  Once a line has failed, in either pass, the job has   *)
(* left its loops for good: it stands at its return (or at a fault), where *)
(* no action of the job is enabled, so no later line is processed; it      *)
(* reports failure and has written no file.  When the failing line was a   *)
(* line of the first pass (final_ic was never set), the rebase has not run *)
(* (the data labels hold the DC of their registration) and the second pass *)
(* has processed no line (it has left no diagnostic).                      *)
(***************************************************************************)
C12_FailFast ==
    ~success =>
        /\ pc \in {"done", "crashed"}
        /\ ~JobSucceeded
        /\ ob = NoFile /\ ent = NoLines /\ ext = NoLines
        /\ ~SecondPassStarted =>
              /\ diag = NoError
              /\ \A k \in Declarations :
                    RegisteredAs(symbols[k].name, SYMBOL_DATA) =>
                        symbols[k].address = registered[symbols[k].name].dc

\* a line of the first pass failed with lines behind it, after a data label
\* was registered
C12_Witness ==
    /\ pc = "done"
    /\ ~success
    /\ ~SecondPassStarted
    /\ line_num <= Len(am)
    /\ \E k \in Declarations : RegisteredAs(symbols[k].name, SYMBOL_DATA)

(***************************************************************************)
(* Preprocessor properties.                                                *)
(***************************************************************************)
\* the first token of a line is the word (the line opens or closes a definition)
IsWordLine(line, word) == StartsWithWord(str_trim(line), 0, word)

IsMcroLine(line) == IsWordLine(line, <<"m", "c", "r", "o">>)

IsMcroendLine(line) == IsWordLine(line, <<"m", "c", "r", "o", "e", "n", "d">>)

\* the line is: mcro, white space, the name, and nothing else
DefinitionOf(line, name) ==
    /\ IsMcroLine(line)
    /\ str_trim(Sub(str_trim(line), 4, Len(str_trim(line)))) = name

\* the lines of the source that preprocess_file has read
LinesRead == 1..(as_line_num - 1)

\* two jobs left the same outcome and the same artifacts
SameOutcome(a, b) ==
    /\ a.success = b.success
    /\ a.am = b.am
    /\ a.ent = b.ent
    /\ a.ext = b.ext
    /\ (a.success /\ b.success) => a.ob = b.ob

(***************************************************************************)
(* C13.  In a run of several basenames every job starts with an empty      *)
(* macro table, an empty symbol table, IC = 100, DC = 0 and empty images;  *)
(* the macros of the table are macros that lines of the file of the job    *)
(* define; and a source assembled as the third job, behind any other job,  *)
(* leaves the outcome and the artifacts it left as the first job.          *)
(***************************************************************************)
C13_JobsIndependent ==
    /\ (pc = "preprocess" /\ as_line_num = 1) =>
          /\ macro_count = 0
          /\ am = <<>>
          /\ ~in_macro
    /\ (pc \in {"preprocess", "first_pass"} /\ line_num = 1) =>
          /\ symbols = <<>>
          /\ ic = START_IC
          /\ dc = 0
          /\ code = <<>>
          /\ data = <<>>
    /\ \A k \in 1..macro_count :
          \E l \in LinesRead : DefinitionOf(source[l], macros[k].name)
    /\ pc # "preprocess" => macro_count = 0
    /\ Len(results) >= 3 => SameOutcome(results[1], results[3])

\* the run is over; its second job defined the macro M and succeeded, and the
\* third job, whose source names M and does not define it, copied the line
C13_Witness ==
    /\ pc = "exit"
    /\ Len(results) = 3
    /\ results[2].success
    /\ \E k \in 1..Len(macros) : macros[k].name = <<"M">> /\ Len(macros[k].lines) > 0
    /\ \A l \in 1..Len(argv[3]) : ~IsMcroLine(argv[3][l])
    /\ \E l \in 1..Len(results[3].am) : results[3].am[l] = LineM
    /\ SameOutcome(results[1], results[3])

\* preprocess_file has returned
PreprocessDone == pc # "preprocess"

\* the lines of the source whose first token is mcro, and mcroend
McroLines == {l \in DOMAIN source : IsMcroLine(source[l])}

McroendLines == {l \in DOMAIN source : IsMcroendLine(source[l])}

(***************************************************************************)
(* C14, as stated.  When the source holds no macro definition (no line     *)
(* that opens one), the preprocessor succeeds and the .am file holds the   *)
(* lines of the source, each unchanged.                                    *)
(***************************************************************************)
C14_NoDefinitionIdentity ==
    (PreprocessDone /\ McroLines = {}) => (success /\ am = source)

(***************************************************************************)
(* C14, amended.  When the source holds no mcro line and no mcroend line,  *)
(* the preprocessor succeeds and the .am file holds the lines of the       *)
(* source, each unchanged; while it reads, the .am file holds the lines    *)
(* read so far.                                                            *)
(***************************************************************************)
C14_NoMacroLineIdentity ==
    (McroLines = {} /\ McroendLines = {}) =>
        /\ success
        /\ pc = "preprocess" => am = SubSeq(source, 1, as_line_num - 1)
        /\ PreprocessDone => am = source

\* a source of three lines or more without mcro and mcroend, with a comment
\* and a line between white space, was preprocessed
C14_Witness ==
    /\ PreprocessDone
    /\ McroLines = {} /\ McroendLines = {}
    /\ Len(source) >= 3
    /\ \E l \in DOMAIN source : source[l] = LineM
    /\ \E l \in DOMAIN source : source[l] = LineComment
    /\ success
    /\ am = source

\* the line is empty or a comment
IsBlankOrComment(line) == Ch(str_trim(line), 0) \in {NUL, ";"}

\* the mcro line of the definition that is open when line l is read, or 0
OpenAt(l) ==
    LET before == {d \in McroLines : d < l /\ \A e \in McroendLines : ~(d < e /\ e < l)}
    IN  IF before = {} THEN 0 ELSE CHOOSE d \in before : \A x \in before : x <= d

\* the lines of the source that the definition opened at line d records: the
\* lines up to the next mcro or mcroend line that are neither empty nor a
\* comment
BodyLines(d) ==
    LET close == Min({e \in McroLines \cup McroendLines : e > d} \cup {Len(source) + 1})
        Recorded(l) == ~IsBlankOrComment(source[l])
        body == SelectSeq([k \in 1..(close - d - 1) |-> d + k], Recorded)
    IN  [k \in 1..Len(body) |-> source[body[k]]]

\* the mcro lines before line l that define the name
DefinedBefore(l, name) == {d \in McroLines : d < l /\ DefinitionOf(source[d], name)}

\* what the claim has line l put into the output
Expected(l) ==
    IF IsBlankOrComment(source[l]) THEN <<source[l]>>
    ELSE IF IsMcroLine(source[l]) \/ IsMcroendLine(source[l]) THEN <<>>
    ELSE IF OpenAt(l) # 0 THEN <<>>
    ELSE IF DefinedBefore(l, str_trim(source[l])) # {}
    THEN BodyLines(Min(DefinedBefore(l, str_trim(source[l]))))
    ELSE <<source[l]>>

RECURSIVE Expansion(_)
Expansion(n) == IF n = 0 THEN <<>> ELSE Expansion(n - 1) \o Expected(n)

(***************************************************************************)
(* C15.  The output is, line by line of the lines read: for a line outside *)
(* any definition whose only content is the name of a macro defined        *)
(* earlier, the lines of the body of that macro as the source has them, in *)
(* their order; nothing for the mcro and mcroend lines and the lines they  *)
(* enclose; and the line itself otherwise, so for a line with a macro name *)
(* and further content and for a line that names a macro defined later.    *)
(***************************************************************************)
C15_MacroExpansion == am = Expansion(as_line_num - 1)

\* the source that names M, defines it with two lines, names it, and names
\* it with further content, was preprocessed
C15_Witness ==
    /\ PreprocessDone
    /\ success
    /\ source \in UsageSources
    /\ OpenAt(3) = 2 /\ OpenAt(6) = 0
    /\ DefinedBefore(1, <<"M">>) = {} /\ DefinedBefore(6, <<"M">>) = {2}
    /\ am = <<LineM, LineMStop, LineStop, LineMStop>>

\* the mcro and mcroend lines of the source, in the order of the source
Markers == McroLines \cup McroendLines

\* the marker next behind line l and the marker next before it, 0 for none
NextMarker(l) ==
    IF {x \in Markers : x > l} = {} THEN 0 ELSE Min({x \in Markers : x > l})

PrevMarker(l) ==
    IF {x \in Markers : x < l} = {} THEN 0
    ELSE CHOOSE x \in Markers : x < l /\ \A y \in Markers : y < l => y <= x

\* mcro and mcroend lines alternate, from a mcro line to a mcroend line
StrictlyAlternate ==
    /\ \A d \in McroLines : NextMarker(d) \in McroendLines
    /\ \A e \in McroendLines : PrevMarker(e) \in McroLines

\* the line that preprocess_file read last
LastRead == as_line_num - 1

(***************************************************************************)
(* C16.  Preprocessing succeeds only if the mcro and mcroend lines of the  *)
(* source strictly alternate, from a mcro line to a mcroend line.  A mcro  *)
(* line read while a definition is open, a mcroend line read while none is *)
(* open, and the end of the input while one is open make it fail.          *)
(***************************************************************************)
C16_DefinitionsAlternate ==
    /\ (PreprocessDone /\ success) => StrictlyAlternate
    /\ (LastRead \in McroLines /\ OpenAt(LastRead) # 0) => ~success
    /\ (LastRead \in McroendLines /\ OpenAt(LastRead) = 0) => ~success
    /\ (PreprocessDone /\ OpenAt(Len(source) + 1) # 0) => ~success

\* the input ended behind the body of a definition that no mcroend closes,
\* and preprocess_file returned FALSE
C16_Witness ==
    /\ PreprocessDone
    /\ ~success
    /\ as_line_num = Len(source) + 1
    /\ OpenAt(Len(source) + 1) # 0
    /\ McroendLines = {}
    /\ Len(source) > OpenAt(Len(source) + 1)

\* what follows the word mcro on a mcro line
NameOn(line) == str_trim(Sub(str_trim(line), 4, Len(str_trim(line))))

\* mcro, mcroend and the sixteen mnemonics
ForbiddenNames ==
    {<<"m", "c", "r", "o">>, <<"m", "c", "r", "o", "e", "n", "d">>}
    \cup {OpTable[k].name : k \in 1..Len(OpTable)}

\* the line read last is a mcro line with a forbidden name, or with the name
\* of a macro that an earlier line of the file defines
RejectedName ==
    /\ LastRead \in McroLines
    /\ \/ NameOn(source[LastRead]) \in ForbiddenNames
       \/ DefinedBefore(LastRead, NameOn(source[LastRead])) # {}

(***************************************************************************)
(* C17.  A mcro line whose name is mcro, mcroend, one of the sixteen       *)
(* mnemonics, or the name of a macro already defined in the file makes     *)
(* preprocessing fail and records no macro: the table holds the macros of  *)
(* the mcro lines before it, the macro defined before keeps its body, and  *)
(* no definition is open.                                                  *)
(***************************************************************************)
C17_ReservedOrDuplicateName ==
    RejectedName =>
        /\ ~success
        /\ pc = "preprocess" =>
              /\ macro_count = Cardinality({d \in McroLines : d < LastRead})
              /\ \A k \in 1..macro_count :
                    /\ DefinedBefore(LastRead, macros[k].name) # {}
                    /\ macros[k].lines = BodyLines(Min(DefinedBefore(LastRead, macros[k].name)))
              /\ OpenAt(LastRead) = 0 => ~in_macro

\* a mcro line named a macro that the file had defined with a body: the
\* loop of preprocess_file was left with the one macro in the table
C17_Witness ==
    /\ pc = "preprocess"
    /\ ~success
    /\ RejectedName
    /\ OpenAt(LastRead) = 0
    /\ DefinedBefore(LastRead, NameOn(source[LastRead])) # {}
    /\ macro_count = 1
    /\ Len(macros[1].lines) > 0

(***************************************************************************)
(* Operand properties.                                                     *)
(***************************************************************************)
\* the line is an instruction line that parse_operands accepts
IsInstruction(text) ==
    /\ ~IsBlank(text)
    /\ DirectiveOf(text) = DIR_NONE
    /\ OpcodeOf(text) # OP_INVALID
    /\ parse_operands(text, BodyIndex(text) + Len(Mnemonic(text)), Mnemonic(text)).ok

\* the classifications of the operands of a line
ModesOf(text) ==
    {get_addressing_mode(OperandsOf(text)[k]) : k \in 1..Len(OperandsOf(text))}

\* the instruction lines with a Relative operand whose opcode is not 9
RelativeNotJumpLines ==
    {l \in DOMAIN am :
        IsInstruction(am[l]) /\ OpcodeOf(am[l]) # OP_JUMPS /\ RELATIVE \in ModesOf(am[l])}

NoAddressingLines ==
    {l \in DOMAIN am : IsInstruction(am[l]) /\ NO_ADDRESSING \in ModesOf(am[l])}

(***************************************************************************)
(* C19.  An instruction line with an operand that classifies as            *)
(* NoAddressing is an error: the job does not succeed, and the first pass  *)
(* stores no instruction word for the line.                                *)
(***************************************************************************)
C19_NoAddressingRejected ==
    \A l \in NoAddressingLines :
        /\ ~JobSucceeded
        /\ l \notin InstructionLines

\* the instruction word the first pass stored for line l
WordOf(l) == code[inst_at[l] - START_IC].code

\* the one operand of the line, its classification and its register number
Operand(l) == OperandsOf(am[l])[1]

OneOperandDest ==
    {<<"c", "l", "r">>, <<"n", "o", "t">>, <<"i", "n", "c">>, <<"d", "e", "c">>,
     <<"j", "m", "p">>, <<"b", "n", "e">>, <<"j", "s", "r">>, <<"r", "e", "d">>}

\* the lines with an instruction word, by mnemonic and number of operands;
\* the operand has one of the four addressing modes
PrnLines ==
    {l \in InstructionLines :
        /\ Mnemonic(am[l]) = <<"p", "r", "n">>
        /\ Len(OperandsOf(am[l])) = 1
        /\ get_addressing_mode(Operand(l)) >= 0}

DestLines ==
    {l \in InstructionLines :
        /\ Mnemonic(am[l]) \in OneOperandDest
        /\ Len(OperandsOf(am[l])) = 1
        /\ get_addressing_mode(Operand(l)) >= 0}

NoOperandLines == {l \in InstructionLines : Len(OperandsOf(am[l])) = 0}

RegisterNumber(operand) ==
    IF get_addressing_mode(operand) = REGISTER_MODE THEN DigitVal(Ch(operand, 1)) ELSE 0

MaxPrefixLines == 1

\* every mnemonic with the operand fields: none; #1; r1, r2; r1, #2, r3;
\* r1 r2; r1,; a comma
ArityLines ==
    LET Mnemonics == {OpTable[k].name : k \in DOMAIN OpTable}
        OperandFields ==
            {<<>>,
             <<" ", "#", "1">>,
             <<" ", "r", "1", ",", " ", "r", "2">>,
             <<" ", "r", "1", ",", " ", "#", "2", ",", " ", "r", "3">>,
             <<" ", "r", "1", " ", "r", "2">>,
             <<" ", "r", "1", ",">>,
             <<" ", ",">>}
    IN  {m \o f \o <<"\n">> : m \in Mnemonics, f \in OperandFields}

AritySources ==
    LET Prefixes == UNION {[1..n -> {LineStop, LineCmpImm}] : n \in 0..MaxPrefixLines}
    IN  {p \o <<l>> : p \in Prefixes, l \in ArityLines}

InitArity == am \in AritySources /\ Preprocessed /\ JobStart

SpecArity == InitArity /\ [][Next]_vars

(***************************************************************************)
(* C21.  The first pass accepts an instruction line only if the number of  *)
(* operands on it is the operand count of its mnemonic: 2 for mov, cmp,    *)
(* add, sub, lea; 1 for clr, not, inc, dec, jmp, bne, jsr, red, prn; 0 for *)
(* rts, stop.  With fewer or more operands the line fails, and IC and the  *)
(* code image are as before the line.                                      *)
(***************************************************************************)
\* the line names an operation of the table
IsOperationLine(text) ==
    ~IsBlank(text) /\ DirectiveOf(text) = DIR_NONE /\ OpcodeOf(text) # OP_INVALID

\* the operands on the line: the maximal runs of characters other than white
\* space and commas behind the mnemonic
OperandStarts(text) ==
    LET Separators == {" ", "\t", ",", "\n"}
        first == BodyIndex(text) + Len(Mnemonic(text))
    IN  {i \in first..(Len(text) - 1) :
            /\ Ch(text, i) \notin Separators
            /\ (i = first \/ Ch(text, i - 1) \in Separators)}

OperandCount(text) == Cardinality(OperandStarts(text))

\* the operand count of the mnemonic
Arity(text) ==
    IF Mnemonic(text) \in {<<"m", "o", "v">>, <<"c", "m", "p">>, <<"a", "d", "d">>,
                           <<"s", "u", "b">>, <<"l", "e", "a">>}
    THEN 2
    ELSE IF Mnemonic(text) \in {<<"r", "t", "s">>, <<"s", "t", "o", "p">>}
    THEN 0
    ELSE 1

\* C21: a first-pass step on an operation line whose number of operands is not
\* the operand count of the mnemonic fails and leaves IC and the code image
WrongCountStep ==
    /\ pc = "first_pass"
    /\ line_num <= Len(am)
    /\ IsOperationLine(am[line_num])
    /\ OperandCount(am[line_num]) # Arity(am[line_num])

C21_OperandCount ==
    [][WrongCountStep => (~success' /\ pc' = "done" /\ ic' = ic /\ code' = code)]_vars

\* the first pass has rejected a line with too many or too few operands behind
\* a line that moved IC, and has accepted a line in another job
C21_Witness ==
    /\ pc = "done"
    /\ ~success
    /\ final_ic = 0
    /\ line_num = Len(am) + 1
    /\ IsOperationLine(am[Len(am)])
    /\ OperandCount(am[Len(am)]) > Arity(am[Len(am)])
    /\ Arity(am[Len(am)]) = 1
    /\ ic > START_IC

(***************************************************************************)
(* C22.  Entry promotion is idempotent: a .entry L line that the second    *)
(* pass processes when the symbol L has been promoted already (an entry    *)
(* named L has type Entry) succeeds, and the symbol table after it is the  *)
(* table before it: the same names, addresses, types and order.            *)
(***************************************************************************)
Promoted(name) ==
    \E k \in DOMAIN symbols : symbols[k].name = name /\ symbols[k].type = SYMBOL_ENTRY

\* the lines before l that are .entry lines for a name
EntryLinesBefore(l, name) ==
    {j \in 1..(l - 1) : EntryLine(am[j]) /\ DirectiveOperand(am[j]) = name}

RepeatedEntryStep ==
    /\ pc = "second_pass"
    /\ line_num <= Len(am)
    /\ EntryLine(am[line_num])
    /\ EntryLinesBefore(line_num, DirectiveOperand(am[line_num])) # {}
    /\ Promoted(DirectiveOperand(am[line_num]))

C22_EntryIdempotent ==
    [][RepeatedEntryStep => (success' /\ pc' = "second_pass" /\ symbols' = symbols)]_vars

\* the second pass has gone through a second .entry line for a promoted label
\* and the job has written the entry file
C22_Witness ==
    /\ JobSucceeded
    /\ \E l \in DOMAIN am :
          /\ EntryLine(am[l])
          /\ EntryLinesBefore(l, DirectiveOperand(am[l])) # {}
          /\ Promoted(DirectiveOperand(am[l]))
    /\ Len(ent) = 1

(***************************************************************************)
(* Sources with two labels, one on an instruction and one on a .data line, *)
(* and .entry lines for both, in every order: the sources of at most       *)
(* MaxEntryLines lines.                                                    *)
(***************************************************************************)
MaxEntryLines == 4

\* .entry B
LineEntryB ==
    <<".", "e", "n", "t", "r", "y", " ", "B", "\n">>

EntrySources ==
    LET EntryCatalog == {LineStop, LinePrnA, LineDataB, LineEntryA, LineEntryB}
    IN  UNION {[1..n -> EntryCatalog] : n \in 1..MaxEntryLines}

InitEntries == am \in EntrySources /\ Preprocessed /\ JobStart

SpecEntries == InitEntries /\ [][Next]_vars

(***************************************************************************)
(* C23.  The .ent file is written only when a symbol has type Entry after  *)
(* the second pass.  It then holds one line for every Entry symbol and no  *)
(* other line, in the order in which the labels are defined in the source  *)
(* (the order of insertion into the symbol table), not the order of the    *)
(* .entry lines, each line with the final address of the symbol: the IC at *)
(* its definition for a code label, the final IC plus the DC at its        *)
(* definition for a data label.                                            *)
(***************************************************************************)
EntrySymbols == {k \in DOMAIN symbols : symbols[k].type = SYMBOL_ENTRY}

\* the line that defines a label: the first line that carries it
DefinitionLine(name) ==
    Min({l \in DOMAIN am : get_label(am[l]).found /\ get_label(am[l]).label = name})

C23_EntryFile ==
    /\ ent # NoLines => (JobSucceeded /\ EntrySymbols # {})
    /\ JobSucceeded =>
          /\ Len(ent) = Cardinality(EntrySymbols)
          /\ {ent[i].name : i \in DOMAIN ent} = {symbols[k].name : k \in EntrySymbols}
          /\ \A i \in DOMAIN ent : ent[i].address = FinalAddress(ent[i].name)
          /\ \A i, j \in DOMAIN ent :
                i < j => DefinitionLine(ent[i].name) < DefinitionLine(ent[j].name)

\* the entry file of a job whose .entry lines stand in the other order than
\* the definitions of their labels, one of them a data label behind code
C23_Witness ==
    /\ JobSucceeded
    /\ Len(ent) = 2
    /\ \E a, b \in DOMAIN am :
          /\ a < b
          /\ EntryLine(am[a]) /\ DirectiveOperand(am[a]) = ent[2].name
          /\ EntryLine(am[b]) /\ DirectiveOperand(am[b]) = ent[1].name
    /\ \E i \in DOMAIN ent :
          /\ RegisteredAs(ent[i].name, SYMBOL_DATA)
          /\ ent[i].address = final_ic + registered[ent[i].name].dc
          /\ final_ic > START_IC

(***************************************************************************)
(* C24, as stated.  When a job returns, on whichever path, it holds none   *)
(* of the resources it acquired: the files it opened are closed, and the   *)
(* macro lines, operand strings, code words, symbol table and file-name    *)
(* buffer it allocated are freed.                                          *)
(***************************************************************************)
C24_ResourcesReleased == pc = "done" => heap = {}

(***************************************************************************)
(* Sources for the counters: instructions of one, two and three cells with *)
(* operands of every classification, and a directive: the sources of at    *)
(* most MaxCounterLines lines.                                             *)
(***************************************************************************)
MaxCounterLines == 2

CounterSources ==
    LET CounterCatalog ==
            {LineStop, LineClrR1, LinePrnA, LineJmpRelA, LinePrnRelA, LineMovBA,
             LineCmpImm, LineIncIndexed, LineDataB}
    IN  UNION {[1..n -> CounterCatalog] : n \in 1..MaxCounterLines}

InitCounters == am \in CounterSources /\ Preprocessed /\ JobStart

SpecCounters == InitCounters /\ [][Next]_vars

(***************************************************************************)
(* What a step of the first pass does to the counters, for C25.            *)
(***************************************************************************)
\* a step of the loop of the first pass, and one that accepts the line
FirstPassStep == pc = "first_pass" /\ line_num <= Len(am)

Accepted == success' /\ pc' = "first_pass"

\* the operands of a line that have one of the given classifications
OperandsOfMode(text, modes) ==
    {k \in 1..Len(OperandsOf(text)) : get_addressing_mode(OperandsOf(text)[k]) \in modes}

\* the operands of a line that take a cell: Immediate and Direct operands, and
\* Relative operands of the instructions of opcode 9
CellOperands(text) == {k \in 1..Len(OperandsOf(text)) : TakesCell(text, k)}

IsDirectiveLine(text) == ~IsBlank(text) /\ DirectiveOf(text) # DIR_NONE

\* IC has moved by 1 + extra, the length stored on the first cell of the
\* instruction is that distance and is 1, 2 or 3, and DC has not moved
InstructionCounted(extra) ==
    /\ ic' = ic + 1 + extra
    /\ code'[ic - START_IC].is_instruction = ic' - ic
    /\ ic' - ic \in {1, 2, 3}
    /\ dc' = dc

CountersStep(extra) ==
    /\ (IsOperationLine(am[line_num]) /\ Accepted) => InstructionCounted(extra)
    /\ IsDirectiveLine(am[line_num]) => ic' = ic
    /\ ic' >= ic
    /\ dc' >= dc

MaxTailLen == 2

TokenSources ==
    LET Tails == UNION {[1..n -> {"1", "8", "e"}] : n \in 0..MaxTailLen}
        Tokens == {<<"r">> \o t : t \in Tails}
                      \cup {<<"r", "e", "s", "u", "l", "t">>}
        Uses(t) == {<<"p", "r", "n", " ">> \o t \o <<"\n">>,
                    <<"j", "m", "p", " ">> \o t \o <<"\n">>,
                    <<"m", "o", "v", " ">> \o t \o <<",", " ", "r", "1", "\n">>,
                    <<"m", "o", "v", " ", "r", "1", ",", " ">> \o t \o <<"\n">>}
        Definition(t) == t \o <<":", " ", ".", "d", "a", "t", "a", " ", "5", "\n">>
    IN  UNION {{<<u>> : u \in Uses(t)} \cup {<<Definition(t), u>> : u \in Uses(t)} :
                  t \in Tokens}

InitTokens == am \in TokenSources /\ Preprocessed /\ JobStart

SpecTokens == InitTokens /\ [][Next]_vars

(***************************************************************************)
(* C26.  The classification of operands tries the register rule before the *)
(* label rule: an operand that starts with the letter r and is not one of  *)
(* r0 .. r7 is classified InvalidAddress, never Direct, also when it is a  *)
(* valid label name that the source defines (result), and the first pass   *)
(* fails on an instruction line with such an operand.                      *)
(***************************************************************************)
RegisterNames == {<<"r", d>> : d \in {"0", "1", "2", "3", "4", "5", "6", "7"}}

\* the operands of a line that start with r and do not name a register
MisnamedRegisters(text) ==
    {k \in 1..Len(OperandsOf(text)) :
        Ch(OperandsOf(text)[k], 0) = "r" /\ OperandsOf(text)[k] \notin RegisterNames}

C26_RegisterRuleFirst ==
    [][(/\ FirstPassStep
        /\ IsInstruction(am[line_num])
        /\ MisnamedRegisters(am[line_num]) # {})
       => /\ \A k \in MisnamedRegisters(am[line_num]) :
                get_addressing_mode(OperandsOf(am[line_num])[k]) = INVALID_ADDR
          /\ ~success'
          /\ pc' = "done"
          /\ ic' = ic]_vars

\* the first pass has failed on an instruction whose operand is a label of the
\* symbol table that starts with r
C26_Witness ==
    /\ pc = "done"
    /\ ~success
    /\ final_ic = 0
    /\ line_num = 3
    /\ IsInstruction(am[2])
    /\ \E k \in MisnamedRegisters(am[2]) :
          /\ is_valid_label(OperandsOf(am[2])[k])
          /\ find_symbol(symbols, OperandsOf(am[2])[k]) # 0
          /\ Len(OperandsOf(am[2])[k]) > 2

(***************************************************************************)
(* Sources for the words of the object file: negative and wide immediate  *)
(* values, a jump back to a label, negative and wide .data values and a    *)
(* string: the sources of at most MaxWordLines lines.                      *)
(***************************************************************************)
MaxWordLines == 3

\* .data -2, 16777217
LineDataWide ==
    <<".", "d", "a", "t", "a", " ", "-", "2", ",", " ",
      "1", "6", "7", "7", "7", "2", "1", "7", "\n">>

\* prn #2097153
LinePrnWide ==
    <<"p", "r", "n", " ", "#", "2", "0", "9", "7", "1", "5", "3", "\n">>

\* .string "ab"
LineStringAb ==
    <<".", "s", "t", "r", "i", "n", "g", " ", "\"", "a", "b", "\"", "\n">>

WordSources ==
    LET WordCatalog ==
            {LinePrnA, LineJmpRelA, LineJmpA, LineDataWide, LinePrnWide, LineStringAb}
    IN  UNION {[1..n -> WordCatalog] : n \in 1..MaxWordLines}

InitWords == am \in WordSources /\ Preprocessed /\ JobStart

SpecWords == InitWords /\ [][Next]_vars

(***************************************************************************)
(* C27.  Every word of the body of the .ob file a job writes is in         *)
(* 0 .. 2^24 - 1.  The line of a cell that holds an operand word with      *)
(* value v and ARE a shows (v mod 2^21) * 8 + a: for an Immediate operand  *)
(* v is the number written behind the #, for a Relative operand of a jump  *)
(* the address of the label minus the address of the instruction word,     *)
(* both negative or not, with ARE = 4.  The line of a value v of a .data   *)
(* or .string line shows v mod 2^24, not shifted and without ARE bits: -2  *)
(* is shown as fffffe.                                                     *)
(***************************************************************************)
\* the words of the code lines of the .ob file that carry an address
ObWordsAt(address) ==
    {ob.code[i].word : i \in {j \in DOMAIN ob.code : ob.code[j].address = address}}

\* the number written behind the # of an Immediate operand
ImmediateAt(site) ==
    LET operand == OperandsOf(am[site[1]])[site[2]]
    IN  strtol(Sub(operand, 1, Len(operand))).value

C27_WordsOfObjectFile ==
    JobSucceeded =>
        /\ \A i \in DOMAIN ob.code : ob.code[i].word \in 0..16777215
        /\ \A i \in DOMAIN ob.data : ob.data[i].word \in 0..16777215
        /\ \A i \in DOMAIN ob.code :
              LET cell == code[ob.code[i].address - START_IC]
              IN  cell.is_instruction = 0 =>
                     ob.code[i].word = (cell.data.value % 2097152) * 8 + cell.data.are
        /\ \A site \in SitesOfMode(IMMEDIATE) :
              ObWordsAt(OperandCell(site[1], site[2]))
                  = {(ImmediateAt(site) % 2097152) * 8 + ARE_ABSOLUTE}
        /\ \A site \in SitesOfMode(RELATIVE) :
              ObWordsAt(OperandCell(site[1], site[2]))
                  = {((registered[LabelAt(site)].ic - inst_at[site[1]]) % 2097152) * 8
                        + ARE_ABSOLUTE}
        /\ \A i \in DOMAIN ob.data :
              /\ ob.data[i].address = final_ic + i - 1
              /\ ob.data[i].word = data[i - 1] % 16777216

\* an object file with the words fffffc of the immediate -1, fffff4 of the
\* distance -2 and, in its data lines, fffffe of the value -2 and 000001 of
\* the value 2^24 + 1
C27_Witness ==
    /\ JobSucceeded
    /\ \E site \in SitesOfMode(IMMEDIATE) :
          /\ ImmediateAt(site) = -1
          /\ ObWordsAt(OperandCell(site[1], site[2])) = {16777212}
    /\ \E site \in SitesOfMode(RELATIVE) :
          /\ registered[LabelAt(site)].ic - inst_at[site[1]] = -2
          /\ ObWordsAt(OperandCell(site[1], site[2])) = {16777204}
    /\ Len(ob.data) = 2
    /\ data[0] = -2
    /\ ob.data[1].word = 16777214
    /\ data[1] = 16777217
    /\ ob.data[2].word = 1

(***************************************************************************)
(* C28, as stated.  Whether a Relative operand &L of a jump resolves, for  *)
(* a label L defined on an instruction line, does not depend on where the  *)
(* .entry L line stands: when the second pass comes to the instruction, at *)
(* the cell of its instruction word, it accepts the line and stores the    *)
(* distance from the instruction word to L in the cell of the operand,     *)
(* with .entry L on an earlier line as with .entry L on a later line or on *)
(* no line.                                                                *)
(***************************************************************************)
\* the second pass is at a jump with a Relative operand whose label is defined
\* on an instruction line, and IC is the address of its instruction word
RelativeJumpStep ==
    /\ pc = "second_pass"
    /\ line_num <= Len(am)
    /\ line_num \in InstructionLines
    /\ ic = inst_at[line_num]
    /\ OpcodeOf(am[line_num]) = OP_JUMPS
    /\ ModeAt(<<line_num, 1>>) = RELATIVE
    /\ RegisteredAs(LabelAt(<<line_num, 1>>), SYMBOL_CODE)

C28_EntryPositionIrrelevant ==
    [][RelativeJumpStep =>
          /\ success'
          /\ (ic + 1 - START_IC) \in DOMAIN code'
          /\ code'[ic + 1 - START_IC]
                = DataCell([are |-> ARE_ABSOLUTE,
                            value |-> registered[LabelAt(<<line_num, 1>>)].ic - ic])]_vars

(***************************************************************************)
(* C29, as stated.  The second pass changes no cell of the code image that *)
(* is populated: the instruction words with their length and the words of  *)
(* the Immediate operands stay as the first pass stored them.  It stores   *)
(* only into cells that the first pass left empty for a Direct or Relative *)
(* operand, and into each of them at most once.                            *)
(***************************************************************************)
\* the cells the first pass reserved for the Direct and Relative operands
ReservedCells ==
    {OperandCell(site[1], site[2]) - START_IC :
        site \in SitesOfMode(DIRECT) \cup SitesOfMode(RELATIVE)}

C29_SecondPassFrame ==
    [][(pc = "second_pass" /\ line_num <= Len(am) /\ pc' # "crashed") =>
          /\ \A k \in DOMAIN code : k \in DOMAIN code' /\ code'[k] = code[k]
          /\ SecondPassWrites(am[line_num], ic, code, symbols) \cap DOMAIN code = {}
          /\ SecondPassWrites(am[line_num], ic, code, symbols) \subseteq ReservedCells]_vars

(***************************************************************************)
(* C30.  An empty line or a comment line read while a definition is open   *)
(* is printed to the output where it stands and is not recorded: the macro *)
(* table is left as it was and the definition stays open.  The lines that  *)
(* a line naming a macro puts into the output are the lines of the         *)
(* definition that are neither empty nor a comment, so none of them is     *)
(* empty or a comment.                                                     *)
(***************************************************************************)
\* the loop of preprocess_file reads line as_line_num
ReadsLine == pc = "preprocess" /\ success /\ as_line_num <= Len(source)

\* the line read is empty or a comment and a definition is open
SkippedInDefinition ==
    /\ ReadsLine
    /\ OpenAt(as_line_num) # 0
    /\ IsBlankOrComment(source[as_line_num])

\* the line read stands outside any definition and names a macro defined
\* before it
NamesMacro ==
    /\ ReadsLine
    /\ OpenAt(as_line_num) = 0
    /\ ~IsBlankOrComment(source[as_line_num])
    /\ ~IsMcroLine(source[as_line_num]) /\ ~IsMcroendLine(source[as_line_num])
    /\ DefinedBefore(as_line_num, str_trim(source[as_line_num])) # {}

C30_CommentInDefinition ==
    [][/\ SkippedInDefinition =>
            /\ am' = Append(am, source[as_line_num])
            /\ macros' = macros /\ macro_count' = macro_count
            /\ in_macro' /\ success' /\ pc' = "preprocess"
       /\ NamesMacro =>
            /\ am' = am \o BodyLines(Min(DefinedBefore(as_line_num,
                                                       str_trim(source[as_line_num]))))
            /\ \A k \in (Len(am) + 1)..Len(am') : ~IsBlankOrComment(am'[k])]_vars

\* the source with the commented definition was preprocessed: the comment
\* and the line of white space stand in the output at the place of the
\* definition, and each of the two expansions is the one line stop
C30_Witness ==
    /\ PreprocessDone
    /\ success
    /\ source = CommentedDefinition
    /\ BodyLines(1) = <<LineStop>>
    /\ am = <<LineComment, LineBlank, LineStop, LineStop>>

=============================================================================
